---- MODULE Spec2Model ----
(***************************************************************************)
(* State-machine model of the neuro-kinetic trial engines.                 *)
(*                                                                         *)
(*   - the discrete SaccadeProtocol (10/25/50 trials),                     *)
(*     src/src/components/StreamProtocol.tsx lines 534-855;                *)
(*   - the continuous StreamProtocol,                                      *)
(*     src/src/components/StreamProtocol.tsx lines 1-533.                  *)
(*                                                                         *)
(* Both are React function components.  What the model keeps of React:     *)
(*   - a handler runs to completion; its setState calls are applied in     *)
(*     order (functional updaters see the pending value), the component    *)
(*     re-renders and its effects run before the next event is handled;    *)
(*   - a closure sees the state of the render that created it.  A timer    *)
(*     callback carries the values its closure captured (its "env"); a     *)
(*     listener installed by an effect carries the values of the render    *)
(*     in which the effect last ran; a JSX handler is always fresh;        *)
(*   - setState of an unmounted component does nothing, refs and timers    *)
(*     live on;                                                            *)
(*   - Math.random() is a nondeterministic choice.                         *)
(* Timers: pending timers are kept in the order they were scheduled.  A    *)
(* timer may fire unless an earlier-scheduled pending timer has a delay    *)
(* that is no longer (that one is due first).  Other orders depend on the  *)
(* participant's timing and are all allowed.                               *)
(* Frame loop of the StreamProtocol: requestAnimationFrame runs gameLoop    *)
(* every frame, far more often than any timer fires.  The loop is kept as   *)
(* one pending "countdown" entry, scheduled when the loop effect starts     *)
(* the loop, with the round's duration as its delay and the closure of      *)
(* gameLoop as its env: it fires on the frame that finds the countdown      *)
(* elapsed, and it goes away when the loop is cancelled or when a frame     *)
(* finds hasAnsweredRef set and requests no further frame.                  *)
(***************************************************************************)
EXTENDS Integers, Sequences, FiniteSets, TLC

VARIABLES
    sacc,        \* discrete SaccadeProtocol: useState values and the mounted flag
    saccTimers,  \* discrete SaccadeProtocol: the timer refs and the pending setTimeout callbacks
    saccKey,     \* discrete SaccadeProtocol: closure of the installed keydown listener
    app,         \* App: view and lastResult
    saccLog,     \* history of the discrete session (observation only, never read by the program)
    strm,        \* StreamProtocol: useState values, hasAnsweredRef and the mounted flag
    strmTimers,  \* StreamProtocol: pending setTimeout callbacks and the countdown of the frame loop
    strmKey,     \* StreamProtocol: closure of the installed keydown listener
    storage,     \* localStorage: what is stored under STORAGE_KEY
    strmLog,     \* history of the stream session (observation only, never read by the program)
    posner       \* InfinitePosner: useState values, gameRef, pending timers, stored profile, history

saccVars == <<sacc, saccTimers, saccKey, saccLog>>
strmVars == <<strm, strmTimers, strmKey, storage, strmLog>>
vars == <<sacc, saccTimers, saccKey, app, saccLog, strm, strmTimers, strmKey, storage, strmLog,
          posner>>

Min(a, b) == IF a < b THEN a ELSE b
Max(a, b) == IF a > b THEN a ELSE b

\* ------------------------------------------------------------------------
\* Bounds of the model
\* ------------------------------------------------------------------------

\* The session lengths offered stand for 10/25/50: MaxTrials - 1 (the default) and MaxTrials.
MaxTrials == 2
\* Participant input events (pointer or keyboard) explored per discrete session.
MaxInputs == 3
\* Trial sequences (chains of phase timers) explored in flight at one time.
MaxChains == 2
\* trialCount and the observation counters saturate here: the program compares
\* trialCount with totalTrials <= MaxTrials only, and a cue time that would
\* shorten further past this count is kept at the one of this count.
MaxTrialCount == MaxTrials + 2
\* Rounds resolved (answers and timeouts) explored per stream session.
MaxRounds == 3
\* Rounds explored in a paced stream session (which starts at BASELINE).
MaxLongRounds == 6
\* Rounds explored in a session that loses its three lives to mistakes.
MaxRebootRounds == 4
\* Trials an InfinitePosner session may start.
MaxPosnerTrials == 3
\* Trials an InfinitePosner session started from an arbitrary stored level may start.
MaxLoadTrials == 2
\* Trials an InfinitePosner session at the top level may start.
MaxShiftTrials == 6
\* Handles of the InfinitePosner timers (at most MaxPosnerTimers are pending).
MaxPosnerTimers == 4
\* Correct rounds already played when a session in progress is taken up.
LateRounds == 17
\* Handles of the stream session's pending callbacks (at most MaxTimers are pending).
MaxTimers == 4

\* ------------------------------------------------------------------------
\* Discrete SaccadeProtocol: constants and types
\* ------------------------------------------------------------------------

FIXATION_TIME == 1000
BASE_CUE_TIME == 1000
TARGET_FLASH_TIME == 150
TARGET_TIMEOUT == 800
FEEDBACK_DELAY == 1000

Sides == {"LEFT", "RIGHT"}
CueTexts == {"ZID", "DAX"}
CueColors == {"GREEN", "RED"}
SaccadeState == {"IDLE", "FIXATION", "CUE", "TARGET", "FEEDBACK"}
TrialOptions == {MaxTrials - 1, MaxTrials}
DefaultTrials == MaxTrials - 1
\* Date.now() - startTimeRef.current, as measured at an input
ReactionTimes == {350}

NoTimer == 0

\* The values a startTrial closure captures (its useCallback dependencies).
Env(s) == [trialCount |-> s.trialCount, score |-> s.score,
           reactionTimes |-> s.reactionTimes, totalTrials |-> s.totalTrials]

\* The values the installed keydown listener reads: the guard's isPlaying and
\* phase, and the handleInput of its render (correctSide, and startTrial's values)
KeyClosure(s) ==
    [isPlaying |-> s.isPlaying, phase |-> s.phase, correctSide |-> s.correctSide,
     env |-> Env(s)]

\* Math.max(400, BASE_CUE_TIME - (trialCount * 15))
currentCueTime(trialCount) == Max(400, BASE_CUE_TIME - (trialCount * 15))

\* semanticDirection and the contextual interference of the cue callback
semanticDirection(text) == IF text = "ZID" THEN "RIGHT" ELSE "LEFT"
\* (mutant: the colour is not taken into account)
targetSide_noInterference(text, color) == semanticDirection(text)
targetSide(text, color) ==
    IF color = "GREEN" THEN semanticDirection(text)
    ELSE IF semanticDirection(text) = "RIGHT" THEN "LEFT" ELSE "RIGHT"

\* Math.round of a non-negative quotient n/d (ties go up)
Round(n, d) == (2 * n + d) \div (2 * d)

RECURSIVE SumSeq(_)
SumSeq(q) == IF q = <<>> THEN 0 ELSE Head(q) + SumSeq(Tail(q))

\* The value startTrial hands to onGameOver; details is the triple that the
\* template string `Accuracy: P% (S/T)` prints.
GameResult(env) ==
    [mode |-> "SACCADE",
     score |-> env.score,
     avgReactionTime |->
        IF Len(env.reactionTimes) > 0
        THEN Round(SumSeq(env.reactionTimes), Len(env.reactionTimes))
        ELSE 0,
     details |-> [percent |-> Round(env.score * 100, env.totalTrials),
                  score |-> env.score, totalTrials |-> env.totalTrials]]

NoResult == [mode |-> "NONE"]

\* ------------------------------------------------------------------------
\* Discrete SaccadeProtocol: the world a handler transforms.
\*   w.s  component state and refs, w.t  pending timers, w.a  App state,
\*   w.g  observation log
\* ------------------------------------------------------------------------

SaccInit ==
    [mounted |-> TRUE,
     isPlaying |-> FALSE, phase |-> "IDLE", totalTrials |-> DefaultTrials,
     trialCount |-> 0, score |-> 0, reactionTimes |-> <<>>,
     cueText |-> "ZID", cueColor |-> "GREEN", correctSide |-> "RIGHT",
     feedback |-> "null", isTargetVisible |-> FALSE]

\* timerRef, flashTimerRef and the timers pending, in scheduling order
SaccTimersInit == [timerRef |-> NoTimer, flashTimerRef |-> NoTimer, pending |-> <<>>]

SaccLogInit ==
    [inputs |-> 0,      \* input events delivered
     started |-> 0,     \* trials started (FIXATION entered)
     resolved |-> 0,    \* outcomes recorded (handleInput runs)
     hits |-> 0,        \* HIT outcomes recorded
     emitted |-> 0,     \* onGameOver calls
     aborted |-> FALSE, \* onExit was used
     side |-> "none",   \* side of the last input event
     at |-> "none",     \* phase in which the last input event arrived
     inWindow |-> TRUE] \* every input event so far arrived during TARGET

AppInit == [view |-> "SACCADE_GAME", lastResult |-> NoResult]

TimerIds(q) == {q[i].id : i \in 1..Len(q)}
FreshId(q) == CHOOSE k \in 1..(Len(q) + 1) :
                 k \notin TimerIds(q) /\ \A j \in 1..(k - 1) : j \in TimerIds(q)

\* setState with plain values: ignored once the component is unmounted
setState(w, upd) == [w EXCEPT !.s = IF @.mounted THEN upd @@ @ ELSE @]

\* A handle whose timer is no longer pending is kept as NoTimer: clearTimeout
\* of it does nothing, as for null.
DropTimer(k, id) ==
    [timerRef |-> IF k.timerRef = id THEN NoTimer ELSE k.timerRef,
     flashTimerRef |-> IF k.flashTimerRef = id THEN NoTimer ELSE k.flashTimerRef,
     pending |-> SelectSeq(k.pending, LAMBDA x : x.id # id)]

\* if (ref.current) clearTimeout(ref.current)
clearTimeout(w, ref) ==
    [w EXCEPT !.t = IF @[ref] # NoTimer THEN DropTimer(@, @[ref]) ELSE @]

AddTimer(k, ref, kind, delay, env) ==
    LET id == FreshId(k.pending)
        q == Append(k.pending, [id |-> id, kind |-> kind, delay |-> delay, env |-> env])
    IN  IF ref = "none" THEN [k EXCEPT !.pending = q]
        ELSE [k EXCEPT !.pending = q, ![ref] = id]

\* ref.current = setTimeout(callback, delay); ref "none": the handle is dropped
setTimeout(w, ref, kind, delay, env) ==
    [w EXCEPT !.t = AddTimer(@, ref, kind, delay, env)]

Note(w, upd) == [w EXCEPT !.g = upd @@ @]
Bump(n) == Min(n + 1, MaxTrialCount)

\* The unmount cleanup effect
Saccade_cleanup(w) ==
    [clearTimeout(clearTimeout(w, "timerRef"), "flashTimerRef") EXCEPT !.s.mounted = FALSE]

\* App.handleGameOver: setLastResult, setView('RESULTS'); leaving SACCADE_GAME
\* unmounts the component
handleGameOver(w, result) ==
    [Saccade_cleanup(w) EXCEPT !.a = [view |-> "RESULTS", lastResult |-> result],
                               !.g.emitted = Bump(@)]

\* startTrial as created in a render whose values are env
Saccade_startTrial(w, env) ==
    IF env.trialCount >= env.totalTrials
    THEN handleGameOver(w, GameResult(env))
    ELSE [setTimeout(setState(w, [feedback |-> "null", phase |-> "FIXATION",
                                  isTargetVisible |-> FALSE]),
                     "timerRef", "cue", FIXATION_TIME, env)
            EXCEPT !.g.started = IF w.s.mounted THEN Bump(@) ELSE @]

\* HIT | MISS | TIMEOUT
Outcome(side, correctSide) ==
    IF side = "TIMEOUT" THEN "TIMEOUT"
    ELSE IF side = correctSide THEN "HIT" ELSE "MISS"

\* handleInput as created in a render whose values are env and correctSide
Saccade_handleInput(w, side, env, correctSide, rt) ==
    LET result == Outcome(side, correctSide)
        cleared == clearTimeout(clearTimeout(w, "timerRef"), "flashTimerRef")
        scored == IF result = "HIT"
                  THEN [cleared EXCEPT !.s = IF @.mounted
                                             THEN [@ EXCEPT !.score = @ + 1,
                                                            !.reactionTimes = Append(@, rt)]
                                             ELSE @]
                  ELSE cleared
        shown == setState(scored, [feedback |-> result, phase |-> "FEEDBACK",
                                   isTargetVisible |-> FALSE])
    IN  [setTimeout(shown, "none", "next", FEEDBACK_DELAY, env)
            EXCEPT !.g = IF w.s.mounted
                         THEN [@ EXCEPT !.resolved = Bump(@),
                                        !.hits = IF result = "HIT" THEN Bump(@) ELSE @]
                         ELSE @]

\* The callbacks of the timers of one trial, by kind
Saccade_cueCallback(w, env, newText, newColor) ==
    setTimeout(setState(w, [cueText |-> newText, cueColor |-> newColor,
                            correctSide |-> targetSide(newText, newColor), phase |-> "CUE"]),
               "timerRef", "target", currentCueTime(env.trialCount), env)

Saccade_targetCallback(w, env) ==
    setTimeout(setTimeout(setState(w, [phase |-> "TARGET", isTargetVisible |-> TRUE]),
                          "flashTimerRef", "flash", TARGET_FLASH_TIME, env),
               "timerRef", "timeout", TARGET_TIMEOUT, env)

Saccade_flashCallback(w) == setState(w, [isTargetVisible |-> FALSE])

Saccade_nextCallback(w, env) ==
    Saccade_startTrial([w EXCEPT !.s = IF @.mounted THEN [@ EXCEPT !.trialCount = Bump(@)]
                                                    ELSE @],
                       env)

\* The timer tm fires: it is no longer pending, its callback runs
Saccade_fire(w, tm, newText, newColor, rt) ==
    LET w0 == [w EXCEPT !.t = DropTimer(@, tm.id)]
    IN  CASE tm.kind = "cue" -> Saccade_cueCallback(w0, tm.env, newText, newColor)
          [] tm.kind = "target" -> Saccade_targetCallback(w0, tm.env)
          [] tm.kind = "flash" -> Saccade_flashCallback(w0)
          [] tm.kind = "timeout" -> Saccade_handleInput(w0, "TIMEOUT", tm.env, "none", rt)
          [] OTHER -> Saccade_nextCallback(w0, tm.env)

\* An earlier-scheduled pending timer with a delay that is no longer is due first.
CanFire(q, i) == \A j \in 1..(i - 1) : q[j].delay > q[i].delay

World == [s |-> sacc, t |-> saccTimers, a |-> app, g |-> saccLog]

\* The pending timers that carry a trial sequence on (all but the flash)
Chains(q) == SelectSeq(q, LAMBDA x : x.kind # "flash")

\* The keydown effect (deps isPlaying, phase, correctSide) re-installs the
\* listener, with the handleInput of the new render, when a dependency changed.
keyEffect(old, new) ==
    IF new.mounted /\ <<old.isPlaying, old.phase, old.correctSide>>
                      # <<new.isPlaying, new.phase, new.correctSide>>
    THEN KeyClosure(new)
    ELSE saccKey

\* Commit the world a handler produced: re-render and run the effects.
Commit(w) ==
    /\ sacc' = w.s
    /\ saccTimers' = w.t
    /\ app' = w.a
    /\ saccLog' = w.g
    /\ saccKey' = keyEffect(sacc, w.s)
    /\ UNCHANGED <<strmVars, posner>>

\* ------------------------------------------------------------------------
\* Discrete SaccadeProtocol: events
\* ------------------------------------------------------------------------

\* An input event is delivered (observation only)
Arrived(w, side) ==
    [w EXCEPT !.g = [inputs |-> @.inputs + 1, side |-> side, at |-> w.s.phase,
                     inWindow |-> @.inWindow /\ w.s.phase = "TARGET"] @@ @]

\* Trial selector buttons of the start screen
Saccade_SelectTrials ==
    \E val \in TrialOptions :
        /\ sacc.mounted /\ ~sacc.isPlaying
        /\ \E w \in {setState(World, [totalTrials |-> val])} : Commit(w)

\* INITIATE SEQUENCE button
Saccade_handleStart ==
    /\ sacc.mounted /\ ~sacc.isPlaying
    /\ \E w \in {Saccade_startTrial(
                    setState(World, [isPlaying |-> TRUE, trialCount |-> 0, score |-> 0,
                                     reactionTimes |-> <<>>]),
                    Env(sacc))} : Commit(w)

\* onMouseDown of a target zone: the handleInput of the current render
Saccade_MouseDown ==
    \E side \in Sides, rt \in ReactionTimes :
        /\ sacc.mounted /\ sacc.isPlaying
        /\ saccLog.inputs < MaxInputs
        /\ \E w \in {Saccade_handleInput(Arrived(World, side), side, Env(sacc),
                                         sacc.correctSide, rt)} :
              Len(Chains(w.t.pending)) <= MaxChains /\ Commit(w)

\* keydown listener: the handleInput of the render in which the effect last ran
Saccade_KeyDown ==
    \E side \in Sides, rt \in ReactionTimes :
        /\ sacc.mounted
        /\ saccKey.isPlaying /\ saccKey.phase = "TARGET"
        /\ saccLog.inputs < MaxInputs
        /\ \E w \in {Saccade_handleInput(Arrived(World, side), side, saccKey.env,
                                         saccKey.correctSide, rt)} :
              Len(Chains(w.t.pending)) <= MaxChains /\ Commit(w)

\* The pending timer with handle id fires
Saccade_TimerFires(id) ==
    \E i \in 1..Len(saccTimers.pending) :
        /\ saccTimers.pending[i].id = id
        /\ CanFire(saccTimers.pending, i)
        /\ \E newText \in CueTexts, newColor \in CueColors, rt \in ReactionTimes :
              \E w \in {Saccade_fire(World, saccTimers.pending[i], newText, newColor, rt)} :
                  Commit(w)

Saccade_Timer == \E id \in 1..(2 * MaxChains) : Saccade_TimerFires(id)

\* Abort button (onExit): App goes to MENU, the component unmounts
Saccade_onExit ==
    /\ sacc.mounted
    /\ \E w \in {[Saccade_cleanup(World) EXCEPT !.a.view = "MENU", !.g.aborted = TRUE]} :
          Commit(w)

\* ------------------------------------------------------------------------
\* StreamProtocol: constants and types
\* ------------------------------------------------------------------------

BASELINE == 0
FLUX_INTRO == 2
JITTER_INTRO == 3
NOISE_INTRO == 4
MAXIMUM_LOAD == 5
ComplexityLevel == BASELINE..MAXIMUM_LOAD

ColorState == {"RED", "BLUE"}
ModifierType == {"KEEP", "INVERT"}
StreamState == {"IDLE", "READY", "ACTIVE"}

\* The levels a session is constructed with (the complexity found in localStorage)
SavedLevels == ComplexityLevel

\* The values Math.random() decides in one callback
Randoms == [flux : BOOLEAN, inverted : BOOLEAN, lure : BOOLEAN, modifier : ModifierType]

\* What localStorage holds under STORAGE_KEY, told apart by what getItem and
\* JSON.parse make of it: no item, the empty text, a text that is not JSON,
\* or the text of a JSON value (null, a number, or an object, of which only
\* the member complexity is read: missing, a string or a number).
Undefined == [type |-> "undefined", n |-> 0]
Number(n) == [type |-> "number", n |-> n]
JsonObject(complexity) == [type |-> "object", complexity |-> complexity]
NoItem == [text |-> "absent", value |-> [type |-> "null", complexity |-> Undefined]]
Json(value) == [text |-> "json", value |-> value]
StoredLevels == (BASELINE - 1)..(MAXIMUM_LOAD + 1)
StoredTexts ==
    {NoItem,
     [NoItem EXCEPT !.text = "empty"],
     [NoItem EXCEPT !.text = "garbage"],
     Json([type |-> "null", complexity |-> Undefined]),
     Json([type |-> "number", complexity |-> Undefined]),
     Json(JsonObject(Undefined)),
     Json(JsonObject([type |-> "string", n |-> 0]))}
    \cup {Json(JsonObject(Number(n))) : n \in StoredLevels}

\* JSON.stringify({ complexity: complexity, lastPlayed: Date.now() }), the
\* complexity a number (lastPlayed is never read)
Stored(complexity) == Json(JsonObject(Number(complexity)))

\* The initializer of complexity: saved ? JSON.parse(saved).complexity : BASELINE.
\* JSON.parse throws on a text that is not JSON; reading a member of null
\* throws; a member that is missing reads as undefined.
Stream_initialComplexity(saved) ==
    IF saved.text \in {"absent", "empty"} THEN [threw |-> FALSE, value |-> Number(BASELINE)]
    ELSE IF saved.text = "garbage" \/ saved.value.type = "null"
         THEN [threw |-> TRUE, value |-> Undefined]
         ELSE [threw |-> FALSE, value |-> saved.value.complexity]

\* State after construction at the saved level; timeLeft and isMuted (display
\* and sound only) are left out.
StrmInit(level) ==
    [mounted |-> TRUE,
     gameState |-> "IDLE", score |-> 0, lives |-> 3, buffer |-> 0,
     isDamaged |-> FALSE, isShieldBreak |-> FALSE, isRebooting |-> FALSE,
     correctFeedback |-> "null", warmUpRounds |-> 3,
     currentState |-> "RED", nextModifier |-> "KEEP",
     complexity |-> level, history |-> <<>>, roundDuration |-> 3000,
     isFluxActive |-> FALSE, isInputInverted |-> FALSE, isLureActive |-> FALSE,
     startColor |-> "RED",
     ruleMapping |-> [KEEP |-> "CIRCLE", INVERT |-> "STAR"],
     userAnswer |-> "null",
     hasAnsweredRef |-> FALSE]

StrmTimersInit == [pending |-> <<>>]

StrmLogInit(budget) ==
    [budget |-> budget,   \* rounds the session explores
     rounds |-> 0,        \* rounds resolved (accepted answers and timeouts)
     open |-> FALSE,      \* a round has started and is not resolved yet
     event |-> "none",    \* how the last round resolved was resolved: correct or mistake
     absorbed |-> FALSE,  \* the last mistake was handled as absorbed
     level |-> 0,         \* complexity held when the last mistake was made
     lastLife |-> FALSE,  \* the last mistake was made at lives = 1 with buffer < 50
     shielded |-> FALSE,  \* the last mistake was made at lives = 1 with buffer >= 50
     startLevel |-> 0,    \* complexity held when the last round started
     side |-> "none",     \* physical side of the input accepted in the last round
     device |-> "none"]   \* its device: keyboard or pointer

\* The values of a render that the handlers created in it read
ClosureFields ==
    {"gameState", "isRebooting", "lives", "buffer", "history", "complexity", "warmUpRounds",
     "currentState", "nextModifier", "isFluxActive", "isInputInverted", "startColor"}
Closure(s) == [f \in ClosureFields |-> s[f]]

flip(color) == IF color = "RED" THEN "BLUE" ELSE "RED"

\* handleInput: the modifier in force, and the state it asks for
effectiveModifier_noFlux(nextModifier, isFluxActive) == nextModifier
effectiveModifier(nextModifier, isFluxActive) ==
    IF isFluxActive THEN (IF nextModifier = "KEEP" THEN "INVERT" ELSE "KEEP") ELSE nextModifier

expectedState(currentState, nextModifier, isFluxActive) ==
    IF effectiveModifier(nextModifier, isFluxActive) = "INVERT" THEN flip(currentState)
    ELSE currentState

\* [...history, wasCorrect].slice(-5)
LastFive(h) == IF Len(h) > 5 THEN SubSeq(h, Len(h) - 4, Len(h)) ELSE h
\* newHistory.filter(Boolean).length
recentCorrect(h) == Cardinality({i \in 1..Len(h) : h[i]})

\* roundDuration is kept in whole milliseconds (prev * 0.95 and prev * 1.3 rounded down)
Faster_noFloor(prev) == (prev * 95) \div 100
Faster(prev) == Max(1200, (prev * 95) \div 100)
Slower(prev) == Min(3000, (prev * 13) \div 10)

\* ------------------------------------------------------------------------
\* StreamProtocol: handlers (on the world w; env is the closure they were created in)
\* ------------------------------------------------------------------------

Stream_updateDifficulty(w, env, wasCorrect) ==
    LET newHistory == LastFive(Append(env.history, wasCorrect))
        long == Len(newHistory) >= 3
        up == long /\ recentCorrect(newHistory) = Len(newHistory)
                   /\ env.complexity < MAXIMUM_LOAD
        down == long /\ ~up /\ ~wasCorrect /\ env.complexity > BASELINE
    IN  [w EXCEPT !.s.history = IF up \/ down THEN <<>> ELSE newHistory,
                  !.s.complexity = IF up THEN @ + 1 ELSE IF down THEN @ - 1 ELSE @,
                  !.s.roundDuration = IF wasCorrect THEN Faster(@) ELSE Slower(@)]

\* generateNextRoundConfig on the state s, r the random draws
Stream_generateNextRoundConfig(s, env, successfulInput, r) ==
    [s EXCEPT !.currentState = successfulInput,
              !.warmUpRounds = IF env.warmUpRounds > 0 THEN @ - 1 ELSE @,
              !.isFluxActive = IF env.complexity >= FLUX_INTRO THEN r.flux ELSE FALSE,
              !.isInputInverted =
                  IF env.complexity >= JITTER_INTRO
                  THEN (IF env.isFluxActive /\ env.complexity < MAXIMUM_LOAD
                        THEN FALSE ELSE r.inverted)
                  ELSE FALSE,
              !.isLureActive =
                  IF env.complexity >= NOISE_INTRO
                  THEN (IF ~env.isFluxActive /\ ~env.isInputInverted THEN r.lure ELSE FALSE)
                  ELSE FALSE,
              !.nextModifier = r.modifier]

\* What the session log keeps of a mistake: the state it was made in
NoteMistake(g, s, absorbed) ==
    [g EXCEPT !.event = "mistake", !.rounds = @ + 1, !.open = FALSE,
              !.absorbed = absorbed, !.level = s.complexity,
              !.lastLife = (s.lives = 1 /\ s.buffer < 50),
              !.shielded = (s.lives = 1 /\ s.buffer >= 50)]

Stream_handleMistake(w, env) ==
    IF env.lives = 1 /\ env.buffer >= 50
    THEN setTimeout([Stream_updateDifficulty(w, env, FALSE)
                        EXCEPT !.s.isShieldBreak = TRUE, !.s.buffer = 0,
                               !.g = NoteMistake(@, w.s, TRUE)],
                    "none", "absorbed", 800, env)
    ELSE setTimeout([Stream_updateDifficulty(w, env, FALSE)
                        EXCEPT !.s.buffer = 0, !.s.isDamaged = TRUE,
                               !.g = NoteMistake(@, w.s, FALSE)],
                    "none", "damaged", 800, env)

\* setBuffer(prev => ...) of a correct answer, with the setLives it makes
BufferGain(s, env) ==
    IF s.buffer + 20 >= 100
    THEN [s EXCEPT !.buffer = 0, !.lives = IF env.lives < 5 THEN @ + 1 ELSE @]
    ELSE [s EXCEPT !.buffer = @ + 20]

Stream_handleInput(w, env, inputColor) ==
    IF env.gameState # "ACTIVE" \/ w.s.hasAnsweredRef \/ env.isRebooting
    THEN w
    ELSE IF inputColor = expectedState(env.currentState, env.nextModifier, env.isFluxActive)
         THEN setTimeout([Stream_updateDifficulty(w, env, TRUE)
                             EXCEPT !.s = BufferGain([@ EXCEPT !.hasAnsweredRef = TRUE,
                                                               !.userAnswer = inputColor], env),
                                    !.g = [@ EXCEPT !.event = "correct", !.rounds = @ + 1,
                                                    !.open = FALSE]],
                         "none", "correct", 100, [inputColor |-> inputColor] @@ env)
         ELSE Stream_handleMistake(
                 [w EXCEPT !.s = [@ EXCEPT !.hasAnsweredRef = TRUE,
                                           !.userAnswer = inputColor,
                                           !.correctFeedback =
                                               expectedState(env.currentState, env.nextModifier,
                                                             env.isFluxActive)]],
                 env)

\* gameLoop on the frame at which elapsed >= roundDurationRef.current
Stream_gameLoop(w, env) ==
    IF ~w.s.hasAnsweredRef THEN Stream_handleMistake(w, env) ELSE w

Stream_startGame_keepAnchor(w, env, r) ==
    [w EXCEPT !.s = IF @.mounted
                    THEN [score |-> 0, lives |-> 3, buffer |-> 0, history |-> <<>>,
                          warmUpRounds |-> 3, roundDuration |-> 3000,
                          nextModifier |-> r.modifier,
                          isInputInverted |-> FALSE, isFluxActive |-> FALSE,
                          isLureActive |-> FALSE, userAnswer |-> "null",
                          gameState |-> "ACTIVE"] @@ @
                    ELSE @,
              !.g.open = TRUE]
Stream_startGame(w, env, r) ==
    [w EXCEPT !.s = IF @.mounted
                    THEN [score |-> 0, lives |-> 3, buffer |-> 0, history |-> <<>>,
                          warmUpRounds |-> 3, roundDuration |-> 3000,
                          currentState |-> env.startColor, nextModifier |-> r.modifier,
                          isInputInverted |-> FALSE, isFluxActive |-> FALSE,
                          isLureActive |-> FALSE, userAnswer |-> "null",
                          gameState |-> "ACTIVE"] @@ @
                    ELSE @,
              !.g.open = TRUE]

\* The 100 ms callback of a correct answer
Stream_correctCallback(w, env, r) ==
    [w EXCEPT !.s = IF @.mounted
                    THEN Stream_generateNextRoundConfig(
                            [@ EXCEPT !.score = @ + 1, !.userAnswer = "null"],
                            env, env.inputColor, r)
                    ELSE @,
              !.g.open = TRUE]

\* The 800 ms callback of an absorbed mistake
Stream_absorbedCallback(w, r) ==
    [w EXCEPT !.s = IF @.mounted
                    THEN [@ EXCEPT !.isShieldBreak = FALSE, !.correctFeedback = "null",
                                   !.hasAnsweredRef = FALSE, !.userAnswer = "null",
                                   !.nextModifier = r.modifier]
                    ELSE @,
              !.g.open = TRUE]

Stream_triggerSystemReboot(w, env) ==
    setTimeout([w EXCEPT !.s = IF @.mounted
                               THEN [@ EXCEPT !.isRebooting = TRUE,
                                              !.complexity = Max(BASELINE, @ - 1),
                                              !.lives = 3, !.buffer = 0,
                                              !.roundDuration = 3000, !.warmUpRounds = 3]
                               ELSE @,
                         !.t.pending = SelectSeq(@, LAMBDA x : x.kind # "countdown")],
               "none", "reboot", 3000, env)

\* The 800 ms callback of a mistake that was not absorbed
Stream_damagedCallback(w, env, r) ==
    IF env.lives - 1 <= 0
    THEN Stream_triggerSystemReboot(
            [w EXCEPT !.s = IF @.mounted
                            THEN [@ EXCEPT !.isDamaged = FALSE, !.correctFeedback = "null"]
                            ELSE @],
            env)
    ELSE [w EXCEPT !.s = IF @.mounted
                         THEN [@ EXCEPT !.isDamaged = FALSE, !.correctFeedback = "null",
                                        !.lives = env.lives - 1,
                                        !.hasAnsweredRef = FALSE, !.userAnswer = "null",
                                        !.nextModifier = r.modifier]
                         ELSE @,
                   !.g.open = TRUE]

\* The 3000 ms callback that ends the reboot
Stream_rebootCallback(w, env, r) ==
    [w EXCEPT !.s = IF @.mounted
                    THEN Stream_generateNextRoundConfig(
                            [@ EXCEPT !.isRebooting = FALSE, !.hasAnsweredRef = FALSE,
                                      !.userAnswer = "null"],
                            env, env.currentState, r)
                    ELSE @,
              !.g.open = TRUE]

\* The pending entry tm fires: it is no longer pending, its callback runs
Stream_fire(w, tm, r) ==
    LET w0 == [w EXCEPT !.t.pending = SelectSeq(@, LAMBDA x : x.id # tm.id)]
    IN  CASE tm.kind = "ready" -> Stream_startGame(w0, tm.env, r)
          [] tm.kind = "countdown" -> Stream_gameLoop(w0, tm.env)
          [] tm.kind = "correct" -> Stream_correctCallback(w0, tm.env, r)
          [] tm.kind = "absorbed" -> Stream_absorbedCallback(w0, r)
          [] tm.kind = "damaged" -> Stream_damagedCallback(w0, tm.env, r)
          [] OTHER -> Stream_rebootCallback(w0, tm.env, r)

\* The random draws the callback of tm reads (a draw it does not read is fixed)
Draws(tm) ==
    LET config == tm.kind \in {"correct", "reboot"}
        flux == config /\ tm.env.complexity >= FLUX_INTRO
        inverted == config /\ tm.env.complexity >= JITTER_INTRO
                           /\ ~(tm.env.isFluxActive /\ tm.env.complexity < MAXIMUM_LOAD)
        lure == config /\ tm.env.complexity >= NOISE_INTRO
                       /\ ~tm.env.isFluxActive /\ ~tm.env.isInputInverted
    IN  {r \in Randoms : /\ r.flux => flux
                         /\ r.inverted => inverted
                         /\ r.lure => lure
                         /\ r.modifier = "INVERT" => tm.kind # "countdown"}

StreamWorld == [s |-> strm, t |-> strmTimers, a |-> app, g |-> strmLog]

DropKind(q, kind) == SelectSeq(q, LAMBDA x : x.kind # kind)

\* The effects that follow the render of state new after state old, in the
\* order of their declaration, and the animation frame that follows them:
\*  - loop effect (deps gameState, score, lives, isRebooting): its cleanup
\*    cancels the frame loop; in ACTIVE outside reboot it resets
\*    hasAnsweredRef and starts the frame loop, whose countdown elapses after
\*    roundDuration;
\*  - READY effect (deps gameState): its cleanup clears the start timer; in
\*    READY it schedules startGame;
\*  - the frame loop ends on the first frame that finds hasAnsweredRef set.
\* Unmounting runs the cleanups.
Stream_effects(old, new, k) ==
    LET loopDeps == <<old.gameState, old.score, old.lives, old.isRebooting>>
                    # <<new.gameState, new.score, new.lives, new.isRebooting>>
        readyDeps == old.gameState # new.gameState
        runLoop == new.mounted /\ loopDeps /\ new.gameState = "ACTIVE" /\ ~new.isRebooting
        runReady == new.mounted /\ readyDeps /\ new.gameState = "READY"
        cleaned == [k EXCEPT !.pending =
                      SelectSeq(@, LAMBDA x :
                          /\ (x.kind = "countdown" => new.mounted /\ ~loopDeps)
                          /\ (x.kind = "ready" => new.mounted /\ ~readyDeps))]
        looped == IF runLoop
                  THEN AddTimer(cleaned, "none", "countdown", new.roundDuration, Closure(new))
                  ELSE cleaned
        readied == IF runReady
                   THEN AddTimer(looped, "none", "ready", 3000, Closure(new))
                   ELSE looped
        hasAnswered == IF runLoop THEN FALSE ELSE new.hasAnsweredRef
    IN  [s |-> [new EXCEPT !.hasAnsweredRef = hasAnswered],
         t |-> IF hasAnswered THEN [readied EXCEPT !.pending = DropKind(@, "countdown")]
               ELSE readied]

\* The keydown effect (deps gameState, isInputInverted, isRebooting,
\* currentState, nextModifier, isFluxActive) re-installs the listener, with
\* the handlers of the new render, when a dependency changed.
Stream_keyEffect(key, old, new) ==
    IF new.mounted /\ <<old.gameState, old.isInputInverted, old.isRebooting,
                        old.currentState, old.nextModifier, old.isFluxActive>>
                      # <<new.gameState, new.isInputInverted, new.isRebooting,
                          new.currentState, new.nextModifier, new.isFluxActive>>
    THEN Closure(new)
    ELSE key

\* The persistence effect (deps complexity)
Stream_saveEffect_never(saved, old, new) == saved
Stream_saveEffect(saved, old, new) ==
    IF new.mounted /\ old.complexity # new.complexity THEN Stored(new.complexity) ELSE saved

\* The component as the last render left it
StreamRendered ==
    [s |-> strm, t |-> strmTimers, key |-> strmKey, storage |-> storage, a |-> app,
     g |-> strmLog]

\* The render that follows a handler: the component x, the world w the handler
\* produced, the effects run
Stream_render(x, w) ==
    LET e == Stream_effects(x.s, w.s, w.t)
    IN  [s |-> e.s, t |-> e.t,
         key |-> Stream_keyEffect(x.key, x.s, w.s),
         storage |-> Stream_saveEffect(x.storage, x.s, w.s),
         a |-> w.a,
         g |-> IF w.g.open /\ ~x.g.open
               THEN [w.g EXCEPT !.startLevel = w.s.complexity,
                                !.side = "none", !.device = "none"]
               ELSE w.g]

\* Commit the world a handler produced: re-render and run the effects.
Stream_Commit(w) ==
    /\ \E x \in {Stream_render(StreamRendered, w)} :
          /\ strm' = x.s /\ strmTimers' = x.t /\ strmKey' = x.key
          /\ storage' = x.storage /\ app' = x.a /\ strmLog' = x.g
    /\ UNCHANGED <<saccVars, posner>>

\* ------------------------------------------------------------------------
\* StreamProtocol: events
\* ------------------------------------------------------------------------

\* handleStart, with the two values it draws
Stream_setReady(w, newStartColor, isSwappedRules) ==
    [w EXCEPT !.s = [startColor |-> newStartColor,
                     ruleMapping |->
                         [KEEP |-> IF isSwappedRules THEN "STAR" ELSE "CIRCLE",
                          INVERT |-> IF isSwappedRules THEN "CIRCLE" ELSE "STAR"],
                     gameState |-> "READY"] @@ @]

\* INITIATE button of the start screen
Stream_handleStart ==
    \E newStartColor \in ColorState, isSwappedRules \in BOOLEAN :
        /\ strm.mounted /\ strm.gameState = "IDLE"
        /\ \E w \in {Stream_setReady(StreamWorld, newStartColor, isSwappedRules)} :
              Stream_Commit(w)

\* What the session log keeps of an input that was accepted
Stream_noteInput(w, side, device) ==
    IF w.g.rounds # strmLog.rounds THEN [w EXCEPT !.g.side = side, !.g.device = device]
    ELSE w

\* The colour a physical side stands for
selectedColor_direct(side, isInputInverted) == IF side = "LEFT" THEN "RED" ELSE "BLUE"
selectedColor(side, isInputInverted) ==
    IF side = "LEFT" THEN (IF isInputInverted THEN "BLUE" ELSE "RED")
    ELSE (IF isInputInverted THEN "RED" ELSE "BLUE")

\* onMouseDown of an answer button: the handleInput of the current render
Stream_MouseDown ==
    \E side \in Sides :
        /\ strm.mounted /\ strm.gameState = "ACTIVE"
        /\ strmLog.rounds < strmLog.budget
        /\ \E w \in {Stream_handleInput(StreamWorld, Closure(strm),
                                        selectedColor(side, strm.isInputInverted))} :
              \E v \in {Stream_noteInput(w, side, "pointer")} : Stream_Commit(v)

\* keydown listener: the handlers of the render in which the effect last ran
Stream_KeyDown ==
    \E side \in Sides :
        /\ strm.mounted
        /\ strmLog.rounds < strmLog.budget
        /\ \E w \in {IF strmKey.gameState # "ACTIVE" \/ strm.hasAnsweredRef
                        \/ strmKey.isRebooting
                     THEN StreamWorld
                     ELSE Stream_handleInput(StreamWorld, strmKey,
                                             selectedColor(side, strmKey.isInputInverted))} :
              \E v \in {Stream_noteInput(w, side, "keyboard")} : Stream_Commit(v)

\* The pending entry with handle id fires (a timer callback, or the frame on
\* which the countdown has elapsed)
Stream_TimerFires(id) ==
    \E i \in 1..Len(strmTimers.pending) :
        /\ strmTimers.pending[i].id = id
        /\ CanFire(strmTimers.pending, i)
        /\ strmTimers.pending[i].kind = "countdown" => strmLog.rounds < strmLog.budget
        /\ \E r \in Draws(strmTimers.pending[i]) :
              \E w \in {Stream_fire(StreamWorld, strmTimers.pending[i], r)} :
                  Stream_Commit(w)

Stream_Timer == \E id \in 1..MaxTimers : Stream_TimerFires(id)

\* No StreamProtocol is mounted
StrmNone == [StrmInit(BASELINE) EXCEPT !.mounted = FALSE]

\* DISCONNECT / Abort (onExit): App goes to MENU and the component unmounts.
\* Its state is discarded; callbacks still pending can only call setState of
\* the unmounted component, which does nothing, so they are dropped.
Stream_onExit ==
    /\ strm.mounted /\ strm.gameState # "READY"
    /\ \E w \in {[s |-> StrmNone,
                  t |-> StrmTimersInit,
                  a |-> [app EXCEPT !.view = "MENU"],
                  g |-> strmLog]} :
          /\ strm' = w.s /\ strmTimers' = w.t /\ app' = w.a /\ strmLog' = w.g
          /\ strmKey' = strmKey /\ storage' = storage
          /\ UNCHANGED <<saccVars, posner>>

\* The menu's stream card (App, setView('STREAM_GAME')): StreamProtocol is
\* constructed from what is stored and its persistence effect runs. An
\* exception thrown by the initializer leaves no component (no error boundary:
\* React unmounts the tree, view "ERROR"). A component whose complexity is not
\* a number is not followed further.
Stream_Mount ==
    /\ app.view = "MENU" /\ ~strm.mounted
    /\ \E c \in {Stream_initialComplexity(storage)} :
          IF c.threw
          THEN /\ app' = [app EXCEPT !.view = "ERROR"]
               /\ UNCHANGED <<strmVars, posner>>
          ELSE /\ app' = [app EXCEPT !.view = "STREAM_GAME"]
               /\ storage' = Json(JsonObject(c.value))
               /\ strmTimers' = StrmTimersInit
               /\ strmLog' = [StrmLogInit(strmLog.budget)
                                 EXCEPT !.rounds = strmLog.rounds,
                                        !.startLevel = strmLog.startLevel]
               /\ IF c.value.type = "number"
                  THEN /\ strm' = StrmInit(c.value.n)
                       /\ strmKey' = Closure(StrmInit(c.value.n))
                  ELSE UNCHANGED <<strm, strmKey>>
    /\ UNCHANGED <<saccVars, posner>>

\* ------------------------------------------------------------------------
\* InfinitePosner (SaccadeProtocol.tsx): constants and pure functions
\* ------------------------------------------------------------------------

SPEED_FLOOR == 600
STARTING_SPEED == 1500
SPEED_INCREMENT == 50
SHIFT_THRESHOLD_BASE == 15

WORD_BANK ==
    <<"KIV", "JOP", "ZEX", "VUM", "QAD", "WIZ", "YUP", "BOK", "HIX", "GAV",
      "LUN", "REK", "DAX", "ZID", "FOG", "MUV", "NIP", "TEZ", "WAK", "SUT">>

\* Outcomes of Math.floor(Math.random() * WORD_BANK.length) + 1 explored
\* (KIV, DAX and ZID)
WordDraws == {1, 13, 14}

DEFAULT_PROFILE ==
    [level |-> 1, speedWindow |-> STARTING_SPEED, totalXP |-> 0, highScoreStreak |-> 0]

NoWord == "undefined"

\* getRandomWord(exclude): the words the do-while loop can return; a draw of
\* the excluded word is drawn again
getRandomWord_any(exclude) == {WORD_BANK[i] : i \in WordDraws}
getRandomWord(exclude) == {WORD_BANK[i] : i \in WordDraws} \ {exclude}

\* The ciphers regenerateCipher can produce: l = getRandomWord(),
\* r = getRandomWord(l)
NewCiphers ==
    UNION {{[left |-> l, right |-> r] : r \in getRandomWord(l)} : l \in getRandomWord(NoWord)}

InitialCipher == [left |-> "ZID", right |-> "DAX"]

OtherSide(side) == IF side = "LEFT" THEN "RIGHT" ELSE "LEFT"
Token_swapped(cipher, side) == IF side = "LEFT" THEN cipher.right ELSE cipher.left
Token(cipher, side) == IF side = "LEFT" THEN cipher.left ELSE cipher.right

\* The template literal `${a} ${b}`
Template(a, b) == a \o " " \o b

\* The glyph of the NOT relation (the not-equal sign in the source)
NotGlyph == "/="

\* The random draws generateRFTFrame reads at a level (a draw it does not
\* read is fixed): target; the mode when level >= 5; isInvert in mode 3;
\* type and anchor in mode 4; baseSide and mod in mode 5
FrameModes == 1..5
ModeOf(level, r) == IF level >= 5 THEN r.mode ELSE level
FrameDraws(level) ==
    {r \in [target : Sides, mode : FrameModes, isInvert : BOOLEAN,
            type : {"SAME", "NOT"}, anchor : Sides, baseSide : Sides, mod : {"SAME", "OPP"}] :
        /\ level < 5 => r.mode = 1
        /\ ModeOf(level, r) # 3 => ~r.isInvert
        /\ ModeOf(level, r) # 4 => r.type = "SAME" /\ r.anchor = "LEFT"
        /\ ModeOf(level, r) # 5 => r.baseSide = "LEFT" /\ r.mod = "SAME"
        /\ ModeOf(level, r) = 5 => r.target = "LEFT"}

\* The frame of mode 1 and of the final return
LiteralFrame_empty(target) == [text |-> "", color |-> "text-white", correctSide |-> target]
LiteralFrame(target) == [text |-> target, color |-> "text-white", correctSide |-> target]

generateRFTFrame(level, cipher, r) ==
    LET target == r.target
        opposite == OtherSide(target)
        mode == ModeOf(level, r)
    IN  CASE mode = 1 -> LiteralFrame(target)
          [] mode = 2 -> [text |-> Token(cipher, target), color |-> "text-cyan-400",
                          correctSide |-> target]
          [] mode = 3 -> [text |-> IF r.isInvert THEN opposite ELSE target,
                          color |-> IF r.isInvert THEN "text-rose-500" ELSE "text-emerald-500",
                          correctSide |-> target]
          [] mode = 4 -> [text |-> Template(IF r.type = "SAME" THEN "=" ELSE NotGlyph, r.anchor),
                          color |-> "text-amber-400",
                          correctSide |-> IF r.type = "SAME" THEN r.anchor
                                          ELSE OtherSide(r.anchor)]
          [] mode = 5 -> [text |-> Template(IF r.mod = "SAME" THEN "" ELSE "NON-",
                                            Token(cipher, r.baseSide)),
                          color |-> "text-fuchsia-400",
                          correctSide |-> IF r.mod = "SAME" THEN r.baseSide
                                          ELSE OtherSide(r.baseSide)]
          [] OTHER -> LiteralFrame(target)

\* ------------------------------------------------------------------------
\* InfinitePosner: state
\* ------------------------------------------------------------------------

\* localStorage under RFT_POSNER_PROFILE: nothing, or a stored profile
NoProfile == [present |-> FALSE, profile |-> DEFAULT_PROFILE]
StoredProfile(profile) == [present |-> TRUE, profile |-> profile]

PosnerLogInit(budget) ==
    [budget |-> budget,   \* trials the session may still start
     trials |-> 0,        \* trials started since startGame
     results |-> 0,       \* handleResult runs since the current trial started
     event |-> "none",    \* the last step: start, stop, input, timeout or timer
     frameLevel |-> 1,    \* level the last frame was generated at
     shifted |-> FALSE,   \* the cipher was regenerated by the last handleResult
     run |-> 0]           \* hits in a row since the cipher was last regenerated

\* The values of useState and useRef at construction
PosnerConstructed(saved, budget) ==
    [mounted |-> TRUE,
     profile |-> DEFAULT_PROFILE,
     phase |-> "IDLE",
     cue |-> [text |-> "", color |-> "", correctSide |-> "LEFT"],
     feedback |-> "null",
     targetVisible |-> FALSE,
     cipher |-> InitialCipher,
     glitchAnim |-> FALSE,
     ref |-> [isPlaying |-> FALSE, currentState |-> "IDLE", level |-> 1,
              speedWindow |-> STARTING_SPEED, streak |-> 0, trialsSinceShift |-> 0,
              currentCipher |-> InitialCipher, currentTargetSide |-> "LEFT",
              timer |-> NoTimer],
     pending |-> <<>>,
     saved |-> saved,
     g |-> PosnerLogInit(budget)]

\* InfinitePosner is not rendered
PosnerNone == [PosnerConstructed(NoProfile, 0) EXCEPT !.mounted = FALSE]

\* setTimeout(callback, delay); tracked: the handle goes to gameRef.current.timer
Posner_setTimeout(p, kind, delay, tracked) ==
    LET id == FreshId(p.pending)
    IN  [p EXCEPT !.pending = Append(@, [id |-> id, kind |-> kind, delay |-> delay]),
                  !.ref.timer = IF tracked THEN id ELSE @]

\* The timer with handle id is no longer pending; a handle whose timer is no
\* longer pending is kept as NoTimer (clearTimeout of it does nothing)
Posner_drop(p, id) ==
    [p EXCEPT !.pending = SelectSeq(@, LAMBDA x : x.id # id),
              !.ref.timer = IF @ = id THEN NoTimer ELSE @]

\* A clearTimeout that cancels nothing
Posner_clearTimeout_none(p) == p
\* if (gameRef.current.timer) clearTimeout(gameRef.current.timer)
Posner_clearTimeout(p) ==
    IF p.ref.timer # NoTimer THEN Posner_drop(p, p.ref.timer) ELSE p

Posner_regenerateCipher(p, newCipher) ==
    Posner_setTimeout([p EXCEPT !.ref.currentCipher = newCipher, !.cipher = newCipher,
                                !.glitchAnim = TRUE, !.g.run = 0],
                      "glitch", 500, FALSE)

Posner_setGamePhase(p, newPhase) ==
    [p EXCEPT !.ref.currentState = newPhase, !.phase = newPhase]

\* The mount effect: the stored profile, when there is one, is taken over;
\* the cipher is regenerated
Posner_mounted(saved, budget, newCipher) ==
    LET p == PosnerConstructed(saved, budget)
    IN  Posner_regenerateCipher(
            IF saved.present
            THEN [p EXCEPT !.profile = saved.profile,
                           !.ref.level = saved.profile.level,
                           !.ref.speedWindow = saved.profile.speedWindow]
            ELSE p,
            newCipher)

\* Shortest fixation time (800 + Math.random() * 400)
FIXATION_MIN == 800

Posner_runTrial(p) ==
    IF ~p.ref.isPlaying THEN p
    ELSE Posner_setTimeout(
            [Posner_setGamePhase(p, "FIXATION")
                EXCEPT !.targetVisible = FALSE, !.feedback = "null",
                       !.g.trials = @ + 1, !.g.budget = @ - 1, !.g.results = 0],
            "fixation", FIXATION_MIN, TRUE)

ShiftThreshold(level) == Max(5, SHIFT_THRESHOLD_BASE - (level * 2))

\* speedWindow after a MISS: Math.min(speedWindow + 200, 2000)
Widened_noCap(speedWindow) == speedWindow + 200
Widened(speedWindow) == Min(speedWindow + 200, 2000)

\* handleResult; newCipher is the cipher regenerateCipher draws when it runs
Posner_handleResult(p, result, newCipher) ==
    LET level == p.ref.level
        speedWindow == p.ref.speedWindow
        streak == IF result = "HIT" THEN p.ref.streak + 1 ELSE 0
        trialsSinceShift == p.ref.trialsSinceShift + 1
        shift == result = "HIT" /\ level >= 2 /\ trialsSinceShift >= ShiftThreshold(level)
        mastery == (speedWindow <= 600 \/ streak >= 10) /\ level < 5
        widened == Widened(speedWindow)
        demoted == widened >= 1800 /\ level > 1
        newLevel == IF result = "HIT" THEN (IF mastery THEN level + 1 ELSE level)
                    ELSE (IF demoted THEN level - 1 ELSE level)
        newSpeed == IF result = "HIT"
                    THEN (IF mastery THEN 1200
                          ELSE IF speedWindow > SPEED_FLOOR THEN speedWindow - SPEED_INCREMENT
                               ELSE speedWindow)
                    ELSE (IF demoted THEN 1000 ELSE widened)
        newStreak == IF result = "HIT" /\ mastery THEN 0 ELSE streak
        updated == [level |-> newLevel, speedWindow |-> newSpeed,
                    totalXP |-> IF result = "HIT" THEN p.profile.totalXP + (newLevel * 10)
                                ELSE p.profile.totalXP,
                    highScoreStreak |-> Max(p.profile.highScoreStreak, newStreak)]
        p1 == IF shift
              THEN [Posner_regenerateCipher(p, newCipher) EXCEPT !.ref.trialsSinceShift = 0]
              ELSE IF result = "HIT" THEN [p EXCEPT !.ref.trialsSinceShift = trialsSinceShift]
                   ELSE p
        p2 == [Posner_setGamePhase(p1, "FEEDBACK")
                  EXCEPT !.ref.level = newLevel, !.ref.speedWindow = newSpeed,
                         !.ref.streak = newStreak,
                         !.profile = updated, !.saved = StoredProfile(updated),
                         !.feedback = result,
                         !.g.results = @ + 1, !.g.shifted = shift,
                         !.g.run = IF result = "HIT" /\ ~shift THEN @ + 1 ELSE 0]
    IN  Posner_setTimeout(Posner_clearTimeout(p2), "feedback", 1000, TRUE)

\* handleInput(side) reaches regenerateCipher
Posner_shifts(p, side) ==
    /\ p.ref.currentState \in {"TARGET", "CUE"}
    /\ side = p.ref.currentTargetSide
    /\ p.ref.level >= 2
    /\ p.ref.trialsSinceShift + 1 >= ShiftThreshold(p.ref.level)

\* The ciphers an input can draw (one that draws none keeps the drawn value fixed)
InputCiphers(p, side) == IF Posner_shifts(p, side) THEN NewCiphers ELSE {InitialCipher}

Posner_handleInput_unguarded(p, side, newCipher) ==
    Posner_handleResult(
        [Posner_clearTimeout(p) EXCEPT !.ref.currentState = "FEEDBACK"],
        IF side = p.ref.currentTargetSide THEN "HIT" ELSE "MISS",
        newCipher)

\* handleInput(side), side LEFT, RIGHT or TIMEOUT
Posner_handleInput(p, side, newCipher) ==
    IF p.ref.currentState \notin {"TARGET", "CUE"} THEN p
    ELSE Posner_handleResult(
            [Posner_clearTimeout(p) EXCEPT !.ref.currentState = "FEEDBACK"],
            IF side = p.ref.currentTargetSide THEN "HIT" ELSE "MISS",
            newCipher)

Posner_startGame(p, newCipher) ==
    Posner_runTrial(Posner_regenerateCipher([p EXCEPT !.ref.isPlaying = TRUE], newCipher))

Posner_stopGame_noClear(p) ==
    Posner_setGamePhase([p EXCEPT !.ref.isPlaying = FALSE], "IDLE")
Posner_stopGame(p) ==
    Posner_setGamePhase(Posner_clearTimeout([p EXCEPT !.ref.isPlaying = FALSE]), "IDLE")

\* The keys the keydown listener maps to a side
KeySide == [ArrowLeft |-> "LEFT", a |-> "LEFT", ArrowRight |-> "RIGHT", d |-> "RIGHT"]

\* handleKeyDown of the keydown effect
Posner_handleKeyDown(p, key, newCipher) ==
    IF ~p.ref.isPlaying THEN p
    ELSE IF key = "Escape" THEN Posner_stopGame(p)
         ELSE Posner_handleInput(p, KeySide[key], newCipher)

\* A fixation callback that builds the frame from the cipher of construction
Posner_fixationCallback_firstCipher(p, r) ==
    IF ~p.ref.isPlaying THEN p
    ELSE LET logic == generateRFTFrame(p.ref.level, InitialCipher, r)
         IN  Posner_setTimeout(
                Posner_setGamePhase(
                    [p EXCEPT !.ref.currentTargetSide = logic.correctSide, !.cue = logic,
                              !.g.frameLevel = p.ref.level],
                    "CUE"),
                "cue", p.ref.speedWindow, TRUE)

\* The callbacks of runTrial's timers
Posner_fixationCallback(p, r) ==
    IF ~p.ref.isPlaying THEN p
    ELSE LET logic == generateRFTFrame(p.ref.level, p.ref.currentCipher, r)
         IN  Posner_setTimeout(
                Posner_setGamePhase(
                    [p EXCEPT !.ref.currentTargetSide = logic.correctSide, !.cue = logic,
                              !.g.frameLevel = p.ref.level],
                    "CUE"),
                "cue", p.ref.speedWindow, TRUE)

Posner_cueCallback(p) ==
    IF ~p.ref.isPlaying THEN p
    ELSE Posner_setTimeout(
            Posner_setTimeout([Posner_setGamePhase(p, "TARGET") EXCEPT !.targetVisible = TRUE],
                              "flash", 150, FALSE),
            "timeout", 800, TRUE)

\* The pending timer tm fires: it is no longer pending, its callback runs
Posner_fire(p, tm, r, newCipher) ==
    LET p0 == Posner_drop(p, tm.id)
    IN  CASE tm.kind = "fixation" -> Posner_fixationCallback(p0, r)
          [] tm.kind = "cue" -> Posner_cueCallback(p0)
          [] tm.kind = "timeout" -> Posner_handleInput(p0, "TIMEOUT", newCipher)
          [] tm.kind = "feedback" -> Posner_runTrial(p0)
          [] tm.kind = "flash" -> [p0 EXCEPT !.targetVisible = FALSE]
          [] OTHER -> [p0 EXCEPT !.glitchAnim = FALSE]

\* ------------------------------------------------------------------------
\* Specifications
\* ------------------------------------------------------------------------

InitSaccade ==
    /\ sacc = SaccInit
    /\ saccTimers = SaccTimersInit
    /\ saccKey = KeyClosure(SaccInit)
    /\ app = AppInit
    /\ saccLog = SaccLogInit
    /\ strm = StrmNone
    /\ strmTimers = StrmTimersInit
    /\ strmKey = Closure(StrmInit(BASELINE))
    /\ storage = Stored(BASELINE)
    /\ strmLog = StrmLogInit(0)
    /\ posner = PosnerNone

NextSaccade ==
    \/ Saccade_SelectTrials
    \/ Saccade_handleStart
    \/ Saccade_MouseDown
    \/ Saccade_KeyDown
    \/ Saccade_Timer
    \/ Saccade_onExit

SpecSaccade == InitSaccade /\ [][NextSaccade]_vars

\* The sessions of a participant who answers, when at all, during TARGET
\* only; every scheduled timer eventually fires.
NextSaccadeInWindow == NextSaccade /\ saccLog'.inWindow
FairSaccade ==
    /\ InitSaccade /\ [][NextSaccadeInWindow]_vars
    /\ \A id \in 1..(2 * MaxChains) : WF_vars(Saccade_TimerFires(id))

\* The StreamProtocol constructed at a saved level (its persistence effect has
\* saved the level again), App showing STREAM_GAME
Stream_constructed(level, budget) ==
    [s |-> StrmInit(level), t |-> StrmTimersInit, key |-> Closure(StrmInit(level)),
     storage |-> Stored(level), a |-> [view |-> "STREAM_GAME", lastResult |-> NoResult],
     g |-> StrmLogInit(budget)]

\* The variables hold the component x; the discrete component is not mounted.
StreamIs(x) ==
    /\ strm = x.s /\ strmTimers = x.t /\ strmKey = x.key
    /\ storage = x.storage /\ app = x.a /\ strmLog = x.g
    /\ sacc = [SaccInit EXCEPT !.mounted = FALSE]
    /\ saccTimers = SaccTimersInit
    /\ saccKey = KeyClosure(SaccInit)
    /\ saccLog = SaccLogInit
    /\ posner = PosnerNone

StreamConstructed(levels, budget) ==
    \E level \in levels : StreamIs(Stream_constructed(level, budget))

\* Sessions at every saved level, MaxRounds rounds each
InitStream == StreamConstructed(SavedLevels, MaxRounds)

\* Longer sessions of a participant who starts at BASELINE
InitStreamPaced == StreamConstructed({BASELINE}, MaxLongRounds)

\* A session in progress. The state is the one the handlers themselves produce
\* from the constructed component in a session whose rounds so far drew no
\* chaos flag and the modifier KEEP, each answered correctly with the pointer.
WorldOf(x) == [s |-> x.s, t |-> x.t, a |-> x.a, g |-> x.g]
PlainDraw == [flux |-> FALSE, inverted |-> FALSE, lure |-> FALSE, modifier |-> "KEEP"]
PendingOf(x, kind) ==
    CHOOSE tm \in {x.t.pending[i] : i \in 1..Len(x.t.pending)} : tm.kind = kind

\* INITIATE, then the 3000 ms start timer
Stream_started(x) ==
    LET ready == Stream_render(x, Stream_setReady(WorldOf(x), "RED", FALSE))
    IN  Stream_render(ready, Stream_fire(WorldOf(ready), PendingOf(ready, "ready"), PlainDraw))

\* One round answered correctly with the pointer, then its 100 ms callback
Stream_correctRound(x) ==
    LET answered ==
            Stream_render(x, Stream_handleInput(WorldOf(x), Closure(x.s),
                                 expectedState(x.s.currentState, x.s.nextModifier,
                                               x.s.isFluxActive)))
    IN  Stream_render(answered,
                      Stream_fire(WorldOf(answered), PendingOf(answered, "correct"), PlainDraw))

\* n such rounds, one after the other (each round is evaluated before the
\* next one is taken up)
RECURSIVE Stream_correctRounds(_, _)
Stream_correctRounds(x, n) ==
    IF n = 0 THEN x
    ELSE LET played == {Stream_correctRound(x)}
         IN  IF played = {} THEN x
             ELSE Stream_correctRounds(CHOOSE y \in played : TRUE, n - 1)

\* Sessions from BASELINE that are LateRounds correct rounds old, MaxRounds
\* rounds each from there (and the construction itself, one round)
InitStreamLate ==
    \/ StreamConstructed({BASELINE}, 1)
    \/ StreamIs(Stream_correctRounds(
                    Stream_started(Stream_constructed(BASELINE, LateRounds + MaxRounds)),
                    LateRounds))

NextStream ==
    \/ Stream_handleStart
    \/ Stream_MouseDown
    \/ Stream_KeyDown
    \/ Stream_Timer
    \/ Stream_onExit

SpecStream == InitStream /\ [][NextStream]_vars
SpecStreamLate == InitStreamLate /\ [][NextStream]_vars

\* A session long enough to lose three lives with one round resolved twice
InitStreamReboot == StreamConstructed({BASELINE}, MaxRebootRounds)
SpecStreamReboot == InitStreamReboot /\ [][NextStream]_vars

\* The application at its menu, anything stored: sessions constructed from
\* it (and constructed again after an exit), MaxRounds rounds in all
InitStreamLoad ==
    /\ storage \in StoredTexts
    /\ strm = StrmNone
    /\ strmKey = Closure(StrmInit(BASELINE))
    /\ strmTimers = StrmTimersInit
    /\ strmLog = StrmLogInit(MaxRounds)
    /\ app = [view |-> "MENU", lastResult |-> NoResult]
    /\ sacc = [SaccInit EXCEPT !.mounted = FALSE]
    /\ saccTimers = SaccTimersInit
    /\ saccKey = KeyClosure(SaccInit)
    /\ saccLog = SaccLogInit
    /\ posner = PosnerNone
NextStreamLoad == Stream_Mount \/ NextStream
SpecStreamLoad == InitStreamLoad /\ [][NextStreamLoad]_vars

\* ------------------------------------------------------------------------
\* InfinitePosner: events
\* ------------------------------------------------------------------------

PlainFrameDraw ==
    [target |-> "LEFT", mode |-> 1, isInvert |-> FALSE, type |-> "SAME", anchor |-> "LEFT",
     baseSide |-> "LEFT", mod |-> "SAME"]

Posner_Commit(p, event) ==
    /\ posner' = [p EXCEPT !.g.event = event]
    /\ UNCHANGED <<saccVars, strmVars, app>>

\* ENGAGE button of the IDLE screen
Posner_Start ==
    /\ posner.mounted /\ posner.phase = "IDLE"
    /\ posner.g.budget > 0
    /\ \E newCipher \in NewCiphers :
          \E p \in {Posner_startGame([posner EXCEPT !.g.trials = 0], newCipher)} :
              Len(p.pending) <= MaxPosnerTimers /\ Posner_Commit(p, "start")

\* onMouseDown of a target zone (rendered in every phase but IDLE)
Posner_MouseDown ==
    \E side \in Sides : \E newCipher \in InputCiphers(posner, side) :
        /\ posner.mounted /\ posner.phase # "IDLE"
        /\ \E p \in {Posner_handleInput(posner, side, newCipher)} : Posner_Commit(p, "input")

\* keydown listener: the arrow keys and a / d
Posner_KeyDown ==
    \E key \in DOMAIN KeySide : \E newCipher \in InputCiphers(posner, KeySide[key]) :
        /\ posner.mounted
        /\ \E p \in {Posner_handleKeyDown(posner, key, newCipher)} : Posner_Commit(p, "input")

\* keydown listener: Escape
Posner_Escape ==
    /\ posner.mounted
    /\ \E p \in {Posner_handleKeyDown(posner, "Escape", InitialCipher)} :
          Posner_Commit(p, "stop")

\* The stop button of the session screen
Posner_Stop ==
    /\ posner.mounted /\ posner.phase # "IDLE"
    /\ \E p \in {Posner_stopGame(posner)} : Posner_Commit(p, "stop")

\* The pending timer with handle id fires
Posner_TimerFires(id) ==
    \E i \in 1..Len(posner.pending) :
        LET tm == posner.pending[i]
        IN  /\ posner.mounted
            /\ tm.id = id
            /\ CanFire(posner.pending, i)
            /\ tm.kind = "feedback" => posner.g.budget > 0
            /\ \E r \in IF tm.kind = "fixation" THEN FrameDraws(posner.ref.level)
                        ELSE {PlainFrameDraw} :
                  \E p \in {Posner_fire(posner, tm, r, InitialCipher)} :
                      Posner_Commit(p, IF tm.kind = "timeout" THEN "timeout" ELSE "timer")

Posner_Timer == \E id \in 1..MaxPosnerTimers : Posner_TimerFires(id)

\* ------------------------------------------------------------------------
\* InfinitePosner: specifications
\* ------------------------------------------------------------------------

PosnerIs(p) ==
    /\ posner = p
    /\ app = [view |-> "SACCADE_GAME", lastResult |-> NoResult]
    /\ sacc = [SaccInit EXCEPT !.mounted = FALSE]
    /\ saccTimers = SaccTimersInit
    /\ saccKey = KeyClosure(SaccInit)
    /\ saccLog = SaccLogInit
    /\ strm = StrmNone
    /\ strmTimers = StrmTimersInit
    /\ strmKey = Closure(StrmInit(BASELINE))
    /\ storage = Stored(BASELINE)
    /\ strmLog = StrmLogInit(0)

PosnerMounted(profiles, budget) ==
    \E saved \in profiles, newCipher \in NewCiphers :
        PosnerIs(Posner_mounted(saved, budget, newCipher))

Profile(level, speedWindow) ==
    StoredProfile([level |-> level, speedWindow |-> speedWindow, totalXP |-> 0,
                   highScoreStreak |-> 0])

\* Stored profiles the engine itself writes: a first visit, one hit from
\* mastery, one miss from demotion, and the top level at the speed floor
PosnerProfiles ==
    {NoProfile, Profile(1, 650), Profile(2, 1600), Profile(4, SPEED_FLOOR),
     Profile(5, SPEED_FLOOR)}

\* Stored levels of any value
PosnerStoredLevels == (-1)..7
AnyProfiles == {Profile(level, 1200) : level \in PosnerStoredLevels}

InitPosner == PosnerMounted(PosnerProfiles, MaxPosnerTrials)
InitPosnerLoad == PosnerMounted(AnyProfiles, MaxLoadTrials)

NextPosner ==
    \/ Posner_Start
    \/ Posner_MouseDown
    \/ Posner_KeyDown
    \/ Posner_Escape
    \/ Posner_Stop
    \/ Posner_Timer

SpecPosner == InitPosner /\ [][NextPosner]_vars
SpecPosnerLoad == InitPosnerLoad /\ [][NextPosner]_vars

\* Sessions at the top level, never stopped, long enough for the cipher to
\* shift mid-session
InitPosnerShift == PosnerMounted({Profile(5, SPEED_FLOOR)}, MaxShiftTrials)
NextPosnerShift ==
    \/ Posner_Start
    \/ Posner_MouseDown
    \/ Posner_KeyDown
    \/ Posner_Timer
SpecPosnerShift == InitPosnerShift /\ [][NextPosnerShift]_vars


\* The engine over whole trials, from the default profile and from the stored
\* profiles of earlier sessions: every step is one trial, the timers that
\* lead from FIXATION or FEEDBACK to the trial's CUE followed by the input (or
\* timeout) of the trial. One cipher and one frame are drawn; a session has
\* MaxEngineTrials trials.
MaxEngineTrials == 22
EngineCipher == [left |-> "KIV", right |-> "DAX"]
Posner_fireKind(p, kind) ==
    LET i == CHOOSE i \in 1..Len(p.pending) : p.pending[i].kind = kind
    IN  Posner_fire(p, p.pending[i], PlainFrameDraw, EngineCipher)
Posner_nextCue(p) ==
    LET p1 == IF \E i \in 1..Len(p.pending) : p.pending[i].kind = "glitch"
              THEN Posner_fireKind(p, "glitch") ELSE p
        p2 == IF p1.phase = "FEEDBACK" THEN Posner_fireKind(p1, "feedback") ELSE p1
    IN  Posner_fireKind(p2, "fixation")
Posner_PlayTrial ==
    /\ posner.mounted /\ posner.phase \in {"FIXATION", "FEEDBACK"}
    /\ posner.phase = "FEEDBACK" => posner.g.budget > 0
    /\ \E side \in Sides \cup {"TIMEOUT"} :
          \E p1 \in {Posner_nextCue(posner)} :
              \E p2 \in {Posner_handleInput(p1, side, EngineCipher)} :
                  Posner_Commit(p2, IF side = "TIMEOUT" THEN "timeout" ELSE "input")
InitPosnerEngine ==
    \E saved \in PosnerProfiles :
        \E p0 \in {Posner_mounted(saved, MaxEngineTrials, EngineCipher)} :
            \E p1 \in {Posner_startGame(Posner_fireKind(p0, "glitch"), EngineCipher)} :
                PosnerIs(p1)
SpecPosnerEngine == InitPosnerEngine /\ [][Posner_PlayTrial]_vars

\* The sessions of a participant who answers only when no feedback is
\* pending: a round is resolved (by an answer or by the countdown) only while
\* no timer callback is waiting to run.
Paced ==
    strmLog'.rounds # strmLog.rounds
        => \A i \in 1..Len(strmTimers.pending) : strmTimers.pending[i].kind = "countdown"
NextStreamPaced == NextStream /\ Paced
SpecStreamPaced == InitStreamPaced /\ [][NextStreamPaced]_vars
\* The same participant, at every saved level, MaxRounds rounds each
SpecStreamPacedSaved == InitStream /\ [][NextStreamPaced]_vars

\* The sessions in which every scheduled timer callback and every frame of
\* the countdown eventually runs
FairStream ==
    /\ InitStream /\ [][NextStream]_vars
    /\ \A id \in 1..MaxTimers : WF_vars(Stream_TimerFires(id))

\* ------------------------------------------------------------------------
\* Discrete SaccadeProtocol: claims
\* ------------------------------------------------------------------------

InputStep == saccLog'.inputs # saccLog.inputs

\* C2: an input event (pointer or keyboard) that arrives while the phase is
\* IDLE, FIXATION, CUE or FEEDBACK is ignored: score, reactionTimes, feedback,
\* phase and trialCount keep their values, no pending timer is cancelled and
\* none is scheduled.
C2_InputOutsideTargetIgnored ==
    [][(InputStep /\ sacc.phase \in {"IDLE", "FIXATION", "CUE", "FEEDBACK"})
        => /\ sacc'.score = sacc.score
           /\ sacc'.reactionTimes = sacc.reactionTimes
           /\ sacc'.feedback = sacc.feedback
           /\ sacc'.phase = sacc.phase
           /\ sacc'.trialCount = sacc.trialCount
           /\ saccTimers' = saccTimers]_vars

\* C3: one outcome per trial: the score never exceeds the number of trials
\* started, no more outcomes are recorded than trials were started, and at
\* most one trial sequence (chain of phase timers) is in flight.
C3_OneOutcomePerTrial ==
    /\ sacc.score <= saccLog.started
    /\ saccLog.resolved <= saccLog.started
    /\ Len(Chains(saccTimers.pending)) <= 1

\* C4: exactly totalTrials trials are played: no trial is started once
\* totalTrials trials have been started and resolved (stated for the sessions
\* in which every input arrived during TARGET).
C4_ExactlyTotalTrials ==
    (sacc.isPlaying /\ saccLog.inWindow) => saccLog.started <= sacc.totalTrials

\* C5: a started session that is not aborted eventually emits a GameResult,
\* every scheduled timer eventually firing (stated for the sessions in which
\* every input arrived during TARGET).
C5_EventuallyEmits ==
    sacc.isPlaying ~> (saccLog.aborted \/ ~saccLog.inWindow \/ saccLog.emitted > 0)

\* C6: onGameOver is called at most once in a session.
C6_EmittedOnce == saccLog.emitted <= 1

\* C7: the emitted GameResult has score equal to the number of HIT outcomes of
\* the session, the reaction times recorded are as many as the score, and
\* details reports round(100 * score / totalTrials) percent with score/totalTrials
\* (stated for the sessions in which every input arrived during TARGET).
C7_ResultCountsHits ==
    /\ Len(sacc.reactionTimes) = sacc.score
    /\ (app.lastResult.mode = "SACCADE" /\ saccLog.inWindow) =>
          /\ app.lastResult.score = saccLog.hits
          /\ app.lastResult.details.score = app.lastResult.score
          /\ app.lastResult.details.totalTrials = sacc.totalTrials
          /\ LET pct == app.lastResult.details.percent
                 n == 100 * app.lastResult.score
                 d == sacc.totalTrials
             IN  2 * d * pct <= 2 * n + d /\ 2 * n + d < 2 * d * (pct + 1)

\* The side the cipher assigns to a cue, as a table
C8_CipherSide(text, color) ==
    CASE text = "ZID" /\ color = "GREEN" -> "RIGHT"
      [] text = "ZID" /\ color = "RED" -> "LEFT"
      [] text = "DAX" /\ color = "GREEN" -> "LEFT"
      [] text = "DAX" /\ color = "RED" -> "RIGHT"

\* C8: the correct side is the cipher direction of the cue (ZID = RIGHT,
\* DAX = LEFT) under GREEN and the opposite side under RED, and an input that
\* arrives during TARGET is scored HIT exactly when it names that side of the
\* cue on display, MISS otherwise (a HIT adds one to the score, a MISS nothing).
C8_HitIffCorrectSide ==
    [][/\ sacc'.correctSide = C8_CipherSide(sacc'.cueText, sacc'.cueColor)
       /\ (InputStep /\ sacc.phase = "TARGET") =>
             LET hit == saccLog'.side = C8_CipherSide(sacc.cueText, sacc.cueColor)
             IN  /\ sacc'.feedback = IF hit THEN "HIT" ELSE "MISS"
                 /\ sacc'.score = sacc.score + (IF hit THEN 1 ELSE 0)]_vars
\* reached: a RED (inverting) cue answered during TARGET on its correct side
C8_Witness ==
    /\ saccLog.at = "TARGET" /\ sacc.phase = "FEEDBACK" /\ sacc.feedback = "HIT"
    /\ sacc.cueColor = "RED" /\ sacc.cueText = "ZID" /\ saccLog.side = "LEFT"

\* Model sanity: the handles in use stay within the range the timer action draws from.
TimerIdsInRange == TimerIds(saccTimers.pending) \subseteq 1..(2 * MaxChains)

\* ------------------------------------------------------------------------
\* StreamProtocol: claims
\* ------------------------------------------------------------------------

\* A step in which an input event or the countdown's timeout resolves a round
Resolution == strmLog'.rounds # strmLog.rounds
\* A step in which a round starts
RoundStarts == ~strmLog.open /\ strmLog'.open /\ strm'.mounted
\* The feedback delay of the last mistake is running: the next round has not started
InFeedback(log) == log.event = "mistake" /\ ~log.open
\* A step that ends the feedback delay of the last mistake: the next round starts
FeedbackEnds == InFeedback(strmLog) /\ strmLog'.open /\ strm'.mounted

\* C1: a round is resolved at most once: an input event or timeout that
\* arrives after the round has been resolved and before the next round has
\* started leaves score, lives, buffer, level and outcome history unchanged.
C1_RoundResolvedOnce ==
    [][(Resolution /\ ~strmLog.open)
        => /\ strm'.score = strm.score
           /\ strm'.lives = strm.lives
           /\ strm'.buffer = strm.buffer
           /\ strm'.complexity = strm.complexity
           /\ strm'.history = strm.history]_vars

\* C9: absorb law: a mistake (wrong input or timeout) made at lives = 1 with
\* buffer >= 50 is absorbed: from the mistake on lives = 1 and buffer = 0 and
\* no reboot is entered, and when the feedback delay ends input is accepted
\* again, still with lives = 1 and outside reboot (stated for the sessions in
\* which no round is resolved while a feedback delay is running).
C9_AbsorbLaw ==
    [][/\ (strm'.mounted /\ InFeedback(strmLog') /\ strmLog'.shielded)
           => strm'.lives = 1 /\ strm'.buffer = 0 /\ ~strm'.isRebooting
       /\ (FeedbackEnds /\ strmLog.shielded)
           => strm'.lives = 1 /\ ~strm'.isRebooting /\ ~strm'.hasAnsweredRef]_vars

\* C10: reboot law: a mistake (wrong input or timeout) made at lives = 1 with
\* buffer < 50 leads to reboot: the next round starts only at the end of a
\* reboot; and when a reboot is applied lives = 3, buffer = 0,
\* roundDuration = 3000 and the level is max(BASELINE, L - 1), L the level
\* held when the fatal mistake was made.
C10_RebootLaw ==
    [][/\ (FeedbackEnds /\ strmLog.lastLife)
           => strm.isRebooting /\ ~strm'.isRebooting
       /\ (~strm.isRebooting /\ strm'.isRebooting)
           => /\ strm'.lives = 3 /\ strm'.buffer = 0 /\ strm'.roundDuration = 3000
              /\ strm'.complexity = Max(BASELINE, strmLog.level - 1)]_vars

\* C11: starting from a valid persisted level, the level is within
\* [BASELINE, MAXIMUM_LOAD] in every reachable state, for every sequence of
\* correct answers, wrong answers, timeouts and reboots.
C11_LevelInRange == strm.complexity \in ComplexityLevel

\* C12: the level is adjusted by at most one step per trial: between the
\* start of one round and the start of the next round (a round whose mistake
\* exhausts the lives and passes through reboot included) the level changes
\* by -1, 0 or +1.
C12_OneStepPerTrial ==
    [][(RoundStarts /\ strmLog.rounds > 0)
        => strm'.complexity - strmLog.startLevel \in {-1, 0, 1}]_vars

\* C13: the response window roundDuration stays within [1200, 3000] ms in
\* every reachable state: every correct answer sets it to max(1200, 0.95 * w),
\* every mistake to min(3000, 1.3 * w) (w the window before, in whole
\* milliseconds), and session start and reboot set it to 3000.
C13_WindowLaw ==
    [][/\ strm.roundDuration \in 1200..3000 /\ strm'.roundDuration \in 1200..3000
       /\ (Resolution /\ strmLog'.event = "correct")
           => strm'.roundDuration =
                 IF (95 * strm.roundDuration) \div 100 < 1200 THEN 1200
                 ELSE (95 * strm.roundDuration) \div 100
       /\ (Resolution /\ strmLog'.event = "mistake")
           => strm'.roundDuration =
                 IF (13 * strm.roundDuration) \div 10 > 3000 THEN 3000
                 ELSE (13 * strm.roundDuration) \div 10
       /\ (strm.gameState = "READY" /\ strm'.gameState = "ACTIVE")
           => strm'.roundDuration = 3000
       /\ (~strm.isRebooting /\ strm'.isRebooting)
           => strm'.roundDuration = 3000]_vars
\* reached: a correct answer has brought the window down to the floor of
\* 1200 ms, and the mistake that followed has widened it again
C13_Witness ==
    /\ strmLog.rounds > LateRounds + 1 /\ strmLog.event = "mistake"
    /\ strm.roundDuration = 1560

\* C14: in every reachable state buffer is within [0, 100] and lives is
\* within [0, 5]; lives never becomes negative for any interleaving of inputs,
\* timeouts and delayed feedback callbacks.
C14_BufferAndLivesInRange ==
    /\ strm.buffer \in 0..100
    /\ strm.lives \in 0..5

\* C15: each correct answer raises buffer by 20; when the buffer would reach
\* 100 it is reset to 0 and, if lives < 5, lives increases by exactly 1
\* (otherwise lives stays 5). From lives = 3, buffer = 0: three consecutive
\* correct answers give buffer = 60 with lives = 3, and the fifth consecutive
\* correct answer gives buffer = 0 with lives = 4.
C15_BufferLaw ==
    [][/\ (Resolution /\ strmLog'.event = "correct")
           => IF strm.buffer + 20 >= 100
              THEN /\ strm'.buffer = 0
                   /\ strm'.lives = IF strm.lives < 5 THEN strm.lives + 1 ELSE 5
              ELSE /\ strm'.buffer = strm.buffer + 20
                   /\ strm'.lives = strm.lives
       /\ (Resolution /\ strmLog'.event = "correct" /\ strm.score = strmLog.rounds)
           => /\ strmLog'.rounds = 3 => strm'.buffer = 60 /\ strm'.lives = 3
              /\ strmLog'.rounds = 5 => strm'.buffer = 0 /\ strm'.lives = 4]_vars

\* C16: updateDifficulty implements the level ladder. With h the last 5
\* entries of (history + outcome): if h has at least 3 entries, all correct,
\* and level < MAXIMUM_LOAD then the level increases by 1 and history becomes
\* empty; otherwise if h has at least 3 entries, the outcome is incorrect and
\* level > BASELINE then the level decreases by 1 and history becomes empty;
\* otherwise the level is unchanged and history = h. In particular 3
\* consecutive correct outcomes from an empty history at a level below
\* MAXIMUM_LOAD raise the level by 1.
C16_LevelLadder ==
    [][Resolution =>
        LET outcome == strmLog'.event = "correct"
            all == Append(strm.history, outcome)
            h == IF Len(all) > 5 THEN SubSeq(all, Len(all) - 4, Len(all)) ELSE all
            up == Len(h) >= 3 /\ (\A i \in 1..Len(h) : h[i]) /\ strm.complexity < MAXIMUM_LOAD
            down == ~up /\ Len(h) >= 3 /\ ~outcome /\ strm.complexity > BASELINE
        IN  IF up THEN strm'.complexity = strm.complexity + 1 /\ strm'.history = <<>>
            ELSE IF down THEN strm'.complexity = strm.complexity - 1 /\ strm'.history = <<>>
            ELSE strm'.complexity = strm.complexity /\ strm'.history = h]_vars

\* The expected state without flux, and the opposite modifier
C17_Plain(currentState, modifier) ==
    IF modifier = "INVERT" THEN (IF currentState = "RED" THEN "BLUE" ELSE "RED")
    ELSE currentState
C17_Opposite(modifier) == IF modifier = "KEEP" THEN "INVERT" ELSE "KEEP"
\* A step in which an input event resolves a round that had no answer yet
InputResolves == Resolution /\ strm.userAnswer = "null" /\ strm'.userAnswer # "null"

\* C17: flux double-inversion law of the input evaluation: for every
\* currentState and every modifier, the expected state computed with
\* fluxActive = true equals the expected state computed with the opposite
\* modifier and fluxActive = false, where without flux the expected state is
\* flip(currentState) if the modifier is INVERT and currentState otherwise;
\* and an input is judged against that state (accepted as correct exactly when
\* it names it, and shown it as correctFeedback when it does not).
C17_FluxDoubleInversion ==
    [][/\ \A cs \in ColorState, m \in ModifierType :
             /\ expectedState(cs, m, TRUE) = C17_Plain(cs, C17_Opposite(m))
             /\ expectedState(cs, m, FALSE) = C17_Plain(cs, m)
       /\ InputResolves =>
             LET m == IF strm.isFluxActive THEN C17_Opposite(strm.nextModifier)
                      ELSE strm.nextModifier
                 expected == C17_Plain(strm.currentState, m)
             IN  /\ strmLog'.event = "correct" <=> strm'.userAnswer = expected
                 /\ strmLog'.event = "mistake" => strm'.correctFeedback = expected]_vars
\* reached: under flux a round with modifier INVERT has been answered with the
\* colour on display (the two inversions cancel) and accepted as correct
C17_Witness ==
    /\ strm.isFluxActive /\ strm.nextModifier = "INVERT"
    /\ strmLog.event = "correct" /\ ~strmLog.open
    /\ strm.userAnswer = strm.currentState

\* C18: the round-advance uses the same flux-adjusted modifier as the input
\* evaluation: after a correctly answered round the next round's currentState
\* is the expected state obtained by applying the flux-adjusted modifier to the
\* previous currentState, and after a mistake or timeout currentState is
\* unchanged.
C18_AnchorAdvance ==
    [][(RoundStarts /\ strmLog.rounds > 0) =>
          IF strmLog.event = "correct"
          THEN strm'.currentState =
                  C17_Plain(strm.currentState,
                            IF strm.isFluxActive THEN C17_Opposite(strm.nextModifier)
                            ELSE strm.nextModifier)
          ELSE strm'.currentState = strm.currentState]_vars
\* A step in which the countdown elapses on a round that has no answer
TimeoutResolves == Resolution /\ strm.userAnswer = "null" /\ strm'.userAnswer = "null"

\* C19: a round whose countdown elapses without input is treated as an
\* incorrect answer (the lives, buffer and difficulty effects of a wrong
\* input: buffer emptied, the window widened, the damage or shield-break
\* feedback started) and the expected state of that round is still computed
\* and exposed as correctFeedback during the feedback delay.
C19_TimeoutIsMistake ==
    [][TimeoutResolves =>
          /\ strmLog'.event = "mistake"
          /\ strm'.buffer = 0
          /\ strm'.roundDuration >= strm.roundDuration
          /\ strm'.isDamaged \/ strm'.isShieldBreak
          /\ strm'.correctFeedback =
                C17_Plain(strm.currentState,
                          IF strm.isFluxActive THEN C17_Opposite(strm.nextModifier)
                          ELSE strm.nextModifier)]_vars

\* C20: in every round the chaos flags respect the level gates with respect
\* to the level in force during that round: fluxActive implies
\* level >= FLUX_INTRO, inputInverted implies level >= JITTER_INTRO and
\* lureActive implies level >= NOISE_INTRO (the rounds that follow a
\* level-down, a level-up or a reboot included).
C20_FlagsRespectGates ==
    (strm.mounted /\ strm.gameState = "ACTIVE" /\ strmLog.open) =>
        /\ strm.isFluxActive => strm.complexity >= FLUX_INTRO
        /\ strm.isInputInverted => strm.complexity >= JITTER_INTRO
        /\ strm.isLureActive => strm.complexity >= NOISE_INTRO

\* C21: at every level below MAXIMUM_LOAD, fluxActive and inputInverted are
\* never both true in the same round.
C21_FluxExcludesInversion ==
    (strm.mounted /\ strm.gameState = "ACTIVE" /\ strmLog.open
        /\ strm.complexity < MAXIMUM_LOAD)
        => ~(strm.isFluxActive /\ strm.isInputInverted)

\* A step in which App constructs a StreamProtocol
Constructs == app.view = "MENU" /\ app'.view # "MENU"
\* What is stored holds a valid level
ValidStored == storage \in {Stored(level) : level \in ComplexityLevel}

\* C22: constructing a session never fails on persisted state: when the
\* stored value is absent, is not parseable, or parses to a record without a
\* valid level, StreamProtocol starts at the baseline level without throwing.
C22_LoadNeverFails ==
    [][Constructs =>
          /\ app'.view = "STREAM_GAME" /\ strm'.mounted
          /\ ~ValidStored => strm'.complexity = BASELINE]_vars

\* C23: the persisted level tracks the live level: after every change of
\* complexity (level-up, level-down, reboot penalty) the value stored under
\* STORAGE_KEY is the current complexity, so that it is what is stored when
\* the session ends and a session constructed afterwards resumes at that level.
C23_PersistedTracksLevel ==
    [][/\ strm'.mounted => storage' = Stored(strm'.complexity)
       /\ (strm.mounted /\ ~strm'.mounted) => storage' = Stored(strm.complexity)
       /\ Constructs =>
            \A level \in StoredLevels :
                storage = Stored(level) => strm'.mounted /\ strm'.complexity = level]_vars
\* reached: a session has been constructed at a level other than the one the
\* last round of the session before it started at
C23_Witness ==
    /\ strm.mounted /\ strm.gameState = "IDLE" /\ strmLog.rounds >= 3
    /\ strm.complexity # strmLog.startLevel
    /\ storage = Stored(strm.complexity)

Rebooting(x) == x.mounted /\ x.isRebooting
\* C24: while the stream is rebooting, input and the countdown are frozen: no
\* step changes score, lives, buffer, level, history or currentState; and
\* when the recovery delay ends the active loop resumes with lives = 3,
\* buffer = 0, roundDuration = 3000 and input accepted again.
C24_RebootFreezes ==
    [][/\ (Rebooting(strm) /\ Rebooting(strm')) =>
             /\ strm'.score = strm.score
             /\ strm'.lives = strm.lives
             /\ strm'.buffer = strm.buffer
             /\ strm'.complexity = strm.complexity
             /\ strm'.history = strm.history
             /\ strm'.currentState = strm.currentState
       /\ (Rebooting(strm) /\ strm'.mounted /\ ~strm'.isRebooting) =>
             /\ strm'.gameState = "ACTIVE"
             /\ strm'.lives = 3
             /\ strm'.buffer = 0
             /\ strm'.roundDuration = 3000
             /\ ~strm'.hasAnsweredRef
             /\ ~strmKey'.isRebooting
             /\ strmKey'.gameState = "ACTIVE"]_vars

Aborted == saccLog.aborted /\ ~sacc.mounted
\* C25: after the participant aborts the discrete SaccadeProtocol (onExit,
\* which unmounts the component) in any phase, no previously scheduled timer
\* callback acts: no further phase is entered, no new timer is scheduled and
\* no GameResult is emitted (the application does not move to RESULTS).
C25_AbortSilencesTimers ==
    [][Aborted =>
          /\ sacc'.phase = sacc.phase
          /\ TimerIds(saccTimers'.pending) \subseteq TimerIds(saccTimers.pending)
          /\ saccLog'.emitted = saccLog.emitted
          /\ app'.view # "RESULTS"]_vars

\* A frame generated by the engine is on display or awaits its answer
FrameLive == posner.mounted /\ posner.ref.currentState \in {"CUE", "TARGET"}
\* C26: generateRFTFrame is total: for every level (1 to 5, and any other
\* integer) and every cipher with two non-empty tokens it returns a frame
\* whose correctSide is LEFT or RIGHT and whose text is non-empty, for every
\* outcome of the random choices.
C26_FrameTotal ==
    FrameLive =>
        /\ posner.cue.correctSide \in Sides
        /\ posner.cue.text # ""
        /\ Len(posner.cue.text) > 0
\* reached: a frame generated at a level below 1 (the final return)
C26_Witness ==
    /\ FrameLive /\ posner.phase = "CUE"
    /\ posner.g.frameLevel = -1 /\ posner.ref.level = -1
    /\ Len(posner.ref.currentCipher.left) > 0 /\ Len(posner.ref.currentCipher.right) > 0
    /\ posner.cue = LiteralFrame("RIGHT")

\* C27: the session cipher's two tokens are distinct in every reachable
\* state: the initial cipher and every cipher produced by regenerateCipher
\* (at mount, at session start and mid-session) has left # right.
C27_CipherTokensDistinct ==
    posner.mounted =>
        /\ InitialCipher.left # InitialCipher.right
        /\ posner.cipher.left # posner.cipher.right
        /\ posner.ref.currentCipher.left # posner.ref.currentCipher.right
\* reached: the fifth hit in a row at the top level has just regenerated the cipher
C27_Witness ==
    /\ posner.mounted /\ posner.phase = "FEEDBACK" /\ posner.g.shifted
    /\ posner.ref.trialsSinceShift = 0 /\ posner.g.trials = 5
    /\ posner.cipher = posner.ref.currentCipher
    /\ posner.cipher.left # posner.cipher.right

PhaseTimers(p) ==
    {p.pending[i].kind : i \in 1..Len(p.pending)} \cap {"fixation", "cue", "timeout", "feedback"}
Engine(p) ==
    <<p.ref.level, p.ref.speedWindow, p.ref.streak, p.ref.trialsSinceShift,
      p.profile.level, p.profile.speedWindow, p.profile.totalXP>>
InputDelivered == posner'.g.event \in {"input", "timeout"}
Answerable(p) == p.mounted /\ p.ref.currentState \in {"CUE", "TARGET"}
\* C28: exactly one input is honoured per trial: the first input or timeout
\* received in CUE or TARGET moves the engine state to FEEDBACK within the
\* same step and cancels the pending phase timer, so every later input or
\* timeout of the same trial changes neither level, speedWindow, streak,
\* trialsSinceShift nor XP, and handleResult runs exactly once per trial.
C28_OneInputPerTrial ==
    [][/\ (InputDelivered /\ Answerable(posner)) =>
             /\ posner'.ref.currentState = "FEEDBACK"
             /\ PhaseTimers(posner') = {"feedback"}
             /\ posner'.g.results = 1
       /\ (InputDelivered /\ ~Answerable(posner)) =>
             /\ Engine(posner') = Engine(posner)
             /\ posner'.g.results = posner.g.results
             /\ posner'.pending = posner.pending
       /\ posner'.g.results <= 1
       /\ (posner.g.trials >= 1 /\ posner'.g.trials = posner.g.trials + 1) =>
             posner.g.results = 1]_vars
\* reached: an input delivered during FEEDBACK, after the trial's outcome was
\* recorded by a hit
C28_Witness ==
    /\ posner.mounted /\ posner.ref.currentState = "FEEDBACK" /\ posner.phase = "FEEDBACK"
    /\ posner.g.event = "input" /\ posner.g.results = 1
    /\ posner.feedback = "HIT" /\ posner.ref.streak = 1
    /\ posner.g.trials = 2
    /\ PhaseTimers(posner) = {"feedback"}

Stopped(p) == p.mounted /\ ~p.ref.isPlaying
\* C29: after stopGame (from any phase) the engine is inert until startGame is
\* called again: the phase is IDLE, no phase timer is pending, and no input
\* event and no stale timer callback changes phase, level, speedWindow,
\* streak or the cipher.
C29_StoppedIsInert ==
    [][/\ Stopped(posner') =>
             /\ posner'.phase = "IDLE" /\ posner'.ref.currentState = "IDLE"
             /\ PhaseTimers(posner') = {}
       /\ (Stopped(posner) /\ posner'.g.event # "start") =>
             /\ Stopped(posner')
             /\ Engine(posner') = Engine(posner)
             /\ posner'.cipher = posner.cipher
             /\ posner'.ref.currentCipher = posner.ref.currentCipher]_vars
\* reached: a session stopped during TARGET, its flash timer fired after the
\* stop, then a key pressed
C29_Witness ==
    /\ Stopped(posner) /\ posner.phase = "IDLE"
    /\ posner.g.trials >= 1 /\ posner.g.event = "input"
    /\ posner.targetVisible /\ posner.pending # <<>>
    /\ posner.cue.color # ""

\* The sides a frame stands for under the rule of its class (the class is
\* shown by the colour), read with the cipher on display
NamedSides(text) == {side \in Sides : side = text}
CipherSides(cipher, text) ==
    {side \in Sides : (side = "LEFT" /\ cipher.left = text) \/ (side = "RIGHT" /\ cipher.right = text)}
Decode(frame, cipher) ==
    CASE frame.color = "text-white" -> NamedSides(frame.text)
      [] frame.color = "text-cyan-400" -> CipherSides(cipher, frame.text)
      [] frame.color = "text-emerald-500" -> NamedSides(frame.text)
      [] frame.color = "text-rose-500" -> {OtherSide(side) : side \in NamedSides(frame.text)}
      [] frame.color = "text-amber-400" ->
            {side \in Sides : frame.text = "= " \o side}
                \cup {OtherSide(side) : side \in {x \in Sides : frame.text = "/= " \o x}}
      [] frame.color = "text-fuchsia-400" ->
            {side \in Sides : frame.text = " " \o (IF side = "LEFT" THEN cipher.left
                                                   ELSE cipher.right)}
                \cup {OtherSide(side) :
                        side \in {x \in Sides :
                                    frame.text = "NON- " \o (IF x = "LEFT" THEN cipher.left
                                                             ELSE cipher.right)}}
      [] OTHER -> {}
\* C30: every frame produced by generateRFTFrame decodes to its correctSide
\* under the rule of its class: Literal text names correctSide; Symbolic text
\* is the cipher token of correctSide; Contextual text names the opposite of
\* correctSide exactly when the invert colour is used; Relational '= X' gives
\* X and the negated form gives the opposite of X; Compound shows the cipher
\* token of a base side and gives that side without the NON- prefix and the
\* opposite side with it.
C30_FrameDecodes ==
    FrameLive =>
        /\ Decode(posner.cue, posner.cipher) = {posner.cue.correctSide}
        /\ posner.cipher = posner.ref.currentCipher
        /\ posner.ref.currentTargetSide = posner.cue.correctSide
\* reached: a Compound frame with the NON- prefix on the left token
C30_Witness ==
    /\ FrameLive /\ posner.phase = "CUE"
    /\ posner.cue.color = "text-fuchsia-400"
    /\ posner.cue.text = "NON- " \o posner.cipher.left
    /\ posner.cue.correctSide = "RIGHT"

InReady(x) == x.mounted /\ x.gameState = "READY"
\* C31: after INITIATE the stream stays in READY for the orientation delay,
\* accepting no input, and then moves to ACTIVE by itself with score = 0,
\* lives = 3, buffer = 0, empty history, roundDuration = 3000, all three chaos
\* flags false and currentState equal to the anchor colour shown during
\* READY; the rule mapping shown in READY is the one in force for the whole
\* session.
C31_ReadyThenActive ==
    /\ [][/\ (InReady(strm) /\ InReady(strm')) => strm' = strm
          /\ (InReady(strm) /\ ~InReady(strm')) =>
                /\ strm'.mounted /\ strm'.gameState = "ACTIVE"
                /\ strm'.score = 0 /\ strm'.lives = 3 /\ strm'.buffer = 0
                /\ strm'.history = <<>> /\ strm'.roundDuration = 3000
                /\ ~strm'.isFluxActive /\ ~strm'.isInputInverted /\ ~strm'.isLureActive
                /\ strm'.currentState = strm.startColor
                /\ strm'.startColor = strm.startColor
          /\ (strm.mounted /\ strm.gameState # "IDLE" /\ strm'.mounted) =>
                strm'.ruleMapping = strm.ruleMapping]_vars
    /\ InReady(strm) ~> (strm.mounted /\ strm.gameState = "ACTIVE")
\* reached: the first round of a session whose READY screen showed BLUE and
\* the swapped mapping
C31_Witness ==
    /\ strm.mounted /\ strm.gameState = "ACTIVE"
    /\ strmLog.open /\ strmLog.rounds = 0
    /\ strm.startColor = "BLUE" /\ strm.currentState = "BLUE"
    /\ strm.ruleMapping = [KEEP |-> "STAR", INVERT |-> "CIRCLE"]
    /\ strm.score = 0 /\ strm.lives = 3

\* C32: a physical input is resolved into a colour with the inputInverted
\* value in force at the moment of the input: physical LEFT gives RED and
\* physical RIGHT gives BLUE when inputInverted is false, the reverse when it
\* is true; the keyboard path and the pointer path give the same colour for
\* the same physical side.
C32_InputInversion ==
    [][InputResolves =>
          /\ strmLog'.side \in Sides
          /\ strmLog'.device \in {"keyboard", "pointer"}
          /\ strm'.userAnswer = IF (strmLog'.side = "LEFT") = ~strm.isInputInverted
                                THEN "RED" ELSE "BLUE"]_vars
\* reached: physical LEFT on the keyboard accepted as BLUE in an inverted round
C32_Witness ==
    /\ strm.mounted /\ strm.gameState = "ACTIVE" /\ strm.isInputInverted
    /\ strmLog.device = "keyboard" /\ strmLog.side = "LEFT" /\ ~strmLog.open
    /\ strm.userAnswer = "BLUE"

\* A round is open in ACTIVE outside reboot and the session may still resolve it
RoundRunning ==
    /\ strm.mounted /\ strm.gameState = "ACTIVE" /\ ~strm.isRebooting
    /\ strmLog.open /\ strmLog.rounds < strmLog.budget
\* C33: the countdown is restarted after every round resolution (correct
\* answer, non-fatal mistake, absorbed mistake, end of reboot): in ACTIVE
\* outside reboot, a round that receives no input eventually times out and is
\* resolved as a mistake, given that scheduled timers and frames eventually
\* fire.
C33_CountdownRestarts ==
    RoundRunning ~> (~strm.mounted \/ ~strmLog.open)

\* The phase transitions of a trial, and any phase -> IDLE
PhaseSteps ==
    {<<"IDLE", "FIXATION">>, <<"FIXATION", "CUE">>, <<"CUE", "TARGET">>,
     <<"CUE", "FEEDBACK">>, <<"TARGET", "FEEDBACK">>, <<"FEEDBACK", "FIXATION">>}
        \cup {<<ph, "IDLE">> : ph \in {"FIXATION", "CUE", "TARGET", "FEEDBACK"}}
\* The pending timers that move the phase
PendingPhaseTimers(p) ==
    {i \in 1..Len(p.pending) : p.pending[i].kind \in {"fixation", "cue", "timeout", "feedback"}}
\* C34: phase transitions within a trial are strictly sequential: the only
\* transitions are IDLE -> FIXATION (start), FIXATION -> CUE, CUE -> TARGET,
\* CUE -> FEEDBACK or TARGET -> FEEDBACK (input or timeout), FEEDBACK ->
\* FIXATION (next trial), and any phase -> IDLE (stopGame); at most one phase
\* timer is pending at any time.
C34_PhasesSequential ==
    [][(posner.mounted /\ posner'.mounted) =>
          /\ posner'.phase # posner.phase => <<posner.phase, posner'.phase>> \in PhaseSteps
          /\ posner'.ref.currentState = posner'.phase
          /\ posner'.phase = "IDLE" /\ posner.phase # "IDLE" => posner'.g.event = "stop"
          /\ posner'.phase = "FEEDBACK" /\ posner.phase # "FEEDBACK" =>
                posner'.g.event \in {"input", "timeout"}
          /\ posner.phase = "IDLE" /\ posner'.phase # "IDLE" => posner'.g.event = "start"
          /\ Cardinality(PendingPhaseTimers(posner')) <= 1]_vars
\* reached: an input during TARGET took the trial to FEEDBACK while the flash
\* timer of the target was still pending next to the feedback timer
C34_Witness ==
    /\ posner.mounted /\ posner.phase = "FEEDBACK" /\ posner.g.event = "input"
    /\ posner.targetVisible /\ posner.feedback = "MISS"
    /\ Len(posner.pending) = 2
    /\ Cardinality(PendingPhaseTimers(posner)) = 1

\* A trial's result was recorded by the step
Resulted == posner'.g.results = 1 /\ posner'.g.event \in {"input", "timeout"}
\* C35: starting from the default profile, for every sequence of HIT and MISS
\* results the level stays within [1, 5], changes by at most one step per
\* trial, and speedWindow stays within [600, 2000] ms; a level-up sets
\* speedWindow to 1200 and streak to 0, and a level-down (a MISS that brings
\* speedWindow to 1800 or more at level > 1) sets speedWindow to 1000.
C35_EngineInRange ==
    [][/\ posner'.ref.level \in 1..5
       /\ posner'.ref.speedWindow \in 600..2000
       /\ posner'.ref.level - posner.ref.level \in {-1, 0, 1}
       /\ posner'.ref.level = posner.ref.level + 1 =>
             /\ posner'.feedback = "HIT"
             /\ posner'.ref.speedWindow = 1200 /\ posner'.ref.streak = 0
       /\ posner'.ref.level = posner.ref.level - 1 =>
             /\ posner'.feedback = "MISS"
             /\ posner.ref.speedWindow + 200 >= 1800 /\ posner.ref.level > 1
             /\ posner'.ref.speedWindow = 1000
       /\ (posner'.feedback = "MISS" /\ posner.ref.speedWindow + 200 >= 1800
              /\ posner.ref.level > 1) =>
             posner'.ref.level = posner.ref.level - 1
       /\ posner'.profile.level = posner'.ref.level
       /\ posner'.profile.speedWindow = posner'.ref.speedWindow]_vars
\* reached: from the default profile, ten hits in a row at level 1 and ten at
\* level 2, the twentieth being the level-up to level 3
C35_Witness ==
    /\ posner.mounted /\ posner.ref.level = 3 /\ posner.ref.speedWindow = 1200
    /\ posner.feedback = "HIT" /\ posner.ref.streak = 0
    /\ posner.g.trials = 20 /\ posner.profile.totalXP = 320

\* C36: the cipher is regenerated mid-session only after a streak of correct
\* answers: a regeneration happens on a HIT at level >= 2 exactly when the
\* number of consecutive correct answers since the last regeneration reaches
\* max(5, 15 - 2*level), and a MISS or timeout never triggers one.
C36_ShiftAfterStreak ==
    [][Resulted =>
          /\ posner'.g.shifted <=>
                /\ posner'.feedback = "HIT" /\ posner.ref.level >= 2
                /\ posner.g.run + 1 = ShiftThreshold(posner.ref.level)
          /\ posner'.feedback = "MISS" => ~posner'.g.shifted]_vars

\* C37: whenever lureActive is true in a round, fluxActive and inputInverted
\* are both false in that same round.
C37_LureExcludesChaos ==
    (strm.mounted /\ strm.gameState = "ACTIVE" /\ strmLog.open /\ strm.isLureActive)
        => ~strm.isFluxActive /\ ~strm.isInputInverted

\* C38: the cipher never changes while a trial is in CUE or TARGET: the cue
\* of a trial is generated from the cipher in force when CUE is entered, and
\* that cipher is still the current one when the trial's input or timeout is
\* evaluated.
C38_CipherStableInTrial ==
    [][/\ posner'.cipher = posner'.ref.currentCipher
       /\ (~Answerable(posner) /\ Answerable(posner')) =>
             /\ posner'.phase = "CUE"
             /\ posner'.ref.currentCipher = posner.ref.currentCipher
             /\ \E r \in FrameDraws(posner.ref.level) :
                   posner'.cue = generateRFTFrame(posner.ref.level,
                                                  posner'.ref.currentCipher, r)
             /\ posner'.ref.currentTargetSide = posner'.cue.correctSide
       /\ (Answerable(posner) /\ Answerable(posner')) =>
             /\ posner'.ref.currentCipher = posner.ref.currentCipher
             /\ posner'.cue = posner.cue
             /\ posner'.ref.currentTargetSide = posner.ref.currentTargetSide
       /\ (Answerable(posner) /\ InputDelivered) =>
             /\ posner'.cue = posner.cue
             /\ posner'.ref.currentTargetSide = posner.cue.correctSide
             /\ posner'.ref.currentCipher # posner.ref.currentCipher => posner'.g.shifted]_vars
\* reached: the trial after a mid-session regeneration was answered with a hit
\* in TARGET, under a cipher other than the one of construction
C38_Witness ==
    /\ posner.mounted /\ posner.phase = "FEEDBACK" /\ posner.feedback = "HIT"
    /\ posner.g.trials = 6 /\ posner.ref.trialsSinceShift = 1
    /\ posner.targetVisible
    /\ posner.cipher # InitialCipher

\* C39: the lives state is never 0: in every reachable state of an active
\* session lives is within [1, 5], because a mistake at lives = 1 without
\* shield goes from 1 directly to the reboot reset value 3.
C39_LivesNeverZero ==
    (strm.mounted /\ strm.gameState = "ACTIVE") => strm.lives \in 1..5

\* What a reboot leaves alone
RebootFrame(x) == <<x.score, x.ruleMapping, x.startColor, x.currentState, x.gameState>>
\* C40: a reboot resets only lives, buffer, roundDuration, warm-up rounds and
\* the level penalty: it leaves score, the session's ruleMapping, startColor
\* and the anchor currentState unchanged, and the game state remains ACTIVE
\* throughout.
C40_RebootKeepsSession ==
    [][((Rebooting(strm) \/ Rebooting(strm')) /\ strm.mounted /\ strm'.mounted) =>
          /\ RebootFrame(strm') = RebootFrame(strm)
          /\ strm'.gameState = "ACTIVE"
          /\ (~Rebooting(strm)) =>
                /\ strm'.lives = 3 /\ strm'.buffer = 0 /\ strm'.roundDuration = 3000
                /\ strm'.warmUpRounds = 3
                /\ strm'.complexity = Max(BASELINE, strm.complexity - 1)
                /\ strm'.history = strm.history]_vars

\* Model sanity: the InfinitePosner handles in use stay within the range the timer action draws from.
PosnerTimerIdsInRange == TimerIds(posner.pending) \subseteq 1..MaxPosnerTimers

\* Model sanity: the handles in use stay within the range the timer action draws from.
StreamTimerIdsInRange == TimerIds(strmTimers.pending) \subseteq 1..MaxTimers

====
